---- MODULE Spec2Model ----
(***************************************************************************)
(* vcs2git: reconciliation of a declared repository list against the git   *)
(* submodules of a host repository, with rollback on failure.              *)
(*                                                                         *)
(* The host repository is one record, `host`, threaded through every       *)
(* operation.  A run of main() is a sequence of steps selected by `pc`.    *)
(***************************************************************************)
EXTENDS Integers, Sequences, FiniteSets, TLC

VARIABLES
    pc,             \* position of main() in its body
    host,           \* on-disk state of the host repository
    pre,            \* the host state when the run started (never written)
    earlier,        \* the runs before this one: how each left the host
    attempts,       \* the calls of checkout_to_spec of the last Add or Update
    gm_text,        \* the lines of .gitmodules, for the edits of git_ops.rs
    gm_call,        \* the arguments of the edit and the lines it started from
    repos,          \* ReposFile.repositories: suffix -> Repo
    opts,           \* Opts
    submod_names,   \* main.rs:40  paths of the submodules listed at start
    selected_repos, \* main.rs:72  full path -> Repo
    new_repos,      \* main.rs:121 sorted paths to add
    updated_submods,\* main.rs:121 sorted paths to update
    removed_repos,  \* main.rs:121 sorted paths to remove
    tracker,        \* SubmoduleStateTracker.original_states, or None
    completed_new,  \* main.rs:151
    cursor,         \* index of the next element of the loop in progress
    pending,        \* snapshot entries tracker.rollback has not visited yet
    failure,        \* the error process_submodule_operations returned, or None
    rollback_err,   \* TRUE when tracker.rollback returned Err
    result,         \* what main() returned: "running", "Ok" or an error kind
    log             \* operations and rollback steps invoked, in order: <<op, path>>

vars == <<pc, host, pre, earlier, attempts, gm_text, gm_call, repos, opts, submod_names, selected_repos, new_repos,
          updated_submods, removed_repos, tracker, completed_new, cursor,
          pending, failure, rollback_err, result, log>>

None == "none"

\* .gitmodules with its lines; .gitmodules does not exist; no edit of
\* .gitmodules is under way
TextFile(lines) == [exists |-> TRUE, lines |-> lines]
NoFile == [exists |-> FALSE, lines |-> <<>>]
NoCall == [path |-> <<>>, name |-> <<>>, must_exist |-> FALSE, text |-> NoFile]

-----------------------------------------------------------------------------
(* Paths are sequences of components, as std::path::Path compares them.    *)

SrcA == <<"src", "a">>
SrcB == <<"src", "b">>
LibC == <<"lib", "c">>

\* every path a submodule can live at in this model
AllPaths == {SrcA, SrcB, LibC}

\* the keys the repos file can declare, and one key it never declares
Suffixes == {<<"a">>, <<"b">>}
UnknownSuffix == <<"z">>

\* a path is absolute when it starts at the root
IsAbsolute(path) == path # <<>> /\ Head(path) = "/"

\* the components Path equality and hashing look at: a "." counts only as
\* the first component
NotCurDir(c) == c # "."

\* Path::join, up to Path equality: an absolute right-hand side replaces
\* the left-hand side
Join(prefix, suffix) ==
    IF IsAbsolute(suffix) \/ prefix = <<>> THEN suffix
    ELSE prefix \o SelectSeq(suffix, NotCurDir)

\* Path::starts_with: whole components, not characters
StartsWith(path, prefix) ==
    /\ Len(prefix) <= Len(path)
    /\ SubSeq(path, 1, Len(prefix)) = prefix

\* the order of the component strings this model uses
ComponentOrder == <<"a", "b", "c", "lib", "src", "srcx", "z">>

ComponentRank(c) == CHOOSE i \in 1..Len(ComponentOrder) : ComponentOrder[i] = c

\* Path::cmp: lexicographic over components
RECURSIVE PathLess(_, _)
PathLess(p, q) ==
    IF q = <<>> THEN FALSE
    ELSE IF p = <<>> THEN TRUE
    ELSE IF Head(p) = Head(q) THEN PathLess(Tail(p), Tail(q))
    ELSE ComponentRank(Head(p)) < ComponentRank(Head(q))

\* a sort that puts the greatest path first
RECURSIVE SortPaths_descending(_)
SortPaths_descending(S) ==
    IF S = {} THEN <<>>
    ELSE LET m == CHOOSE x \in S : \A y \in S \ {x} : PathLess(y, x)
         IN  <<m>> \o SortPaths_descending(S \ {m})

\* sort_unstable_by(|(lp, _), (rp, _)| lp.cmp(rp)) over distinct paths
RECURSIVE SortPaths(_)
SortPaths(S) ==
    IF S = {} THEN <<>>
    ELSE LET m == CHOOSE x \in S : \A y \in S \ {x} : PathLess(x, y)
         IN  <<m>> \o SortPaths(S \ {m})

Range(s) == {s[i] : i \in 1..Len(s)}

-----------------------------------------------------------------------------
(* The declared repositories (vcs.rs) and the remotes they name.           *)

Repo1Url == "file:///repo1"
Repo2Url == "file:///repo2"
DownUrl  == "file:///nonexistent"
FtpUrl   == "ftp://host/repo1"

\* Url::scheme
Scheme(url) == IF url = FtpUrl THEN "ftp" ELSE "file"

\* a fetch from this URL connects; every such remote has branch main at
\* commit c2, on top of commit c1
Reachable(url) == url \in {Repo1Url, Repo2Url}
RemoteMain == "c2"
RemoteObjects == {"c1", "c2"}

\* version strings: a branch name, the hash of commit c1, a name of nothing
VMain == "main"
VHash1 == "c1"
VNope == "nope"

Repo(type, url, version) == [type |-> type, url |-> url, version |-> version]

\* the entries a repos file of this model can hold under one key
RepoVariants ==
    { Repo("git", Repo1Url, VMain),
      Repo("git", Repo2Url, VHash1),
      Repo("git", DownUrl, VMain),
      Repo("git", Repo1Url, VNope),
      Repo("hg", Repo1Url, VMain),
      Repo("git", FtpUrl, VMain) }

-----------------------------------------------------------------------------
(* The host repository as git2 (libgit2) presents it.                      *)
(*   gm_file, gitmodules : .gitmodules and its [submodule] sections (url)  *)
(*   gm_newline          : .gitmodules ends with a newline                 *)
(*   config              : submodule.<name>.url in .git/config             *)
(*   index, index_gm     : gitlinks and the .gitmodules blob in the index  *)
(*   head, head_gm       : the same in the HEAD commit                     *)
(*   staged_other        : some other file is staged                       *)
(*   sub                 : .git/modules/<name>, the nested repository      *)
(*   workdir             : "absent", "dir" or "repo" (has a .git link)     *)
(*   prefix_dir          : the directory opts.prefix exists                *)
(* A submodule's name is its path, as Repository::submodule names it.      *)
(* Absent urls and commits are the string None.                            *)

NoLinks == [p \in AllPaths |-> None]

\* no .git/modules/<name>
NoSub ==
    [present |-> FALSE, head |-> None, attached |-> FALSE, wt |-> {},
     index_file |-> FALSE, dirty |-> FALSE, corrupt |-> FALSE, origin |-> None,
     local_main |-> None, remote_main |-> None, objects |-> {}]

\* the files of a commit: the first commit of a remote has file1.txt, the
\* second adds file2.txt; no commit, no files
Tree(id) ==
    CASE id = "c1" -> {"file1.txt"}
      [] id = "c2" -> {"file1.txt", "file2.txt"}
      [] OTHER -> {}

\* a nested repository: HEAD, whether HEAD is attached to a reference, the
\* files in its index and working tree, whether an index file was ever
\* written (a repository that was only set up has none), refs/heads/main,
\* refs/remotes/origin/main, the objects present, the URL of remote origin
SubRepo(head, wt, origin) ==
    [present |-> TRUE, head |-> head, attached |-> FALSE, wt |-> wt,
     index_file |-> head # None, dirty |-> FALSE, corrupt |-> FALSE, origin |-> origin,
     local_main |-> None, remote_main |-> head,
     objects |-> IF head = None THEN {} ELSE {head}]

\* Repository::submodules(): the paths libgit2 lists, which are the
\* sections of .gitmodules and the gitlinks of the index and of HEAD
Submodules(h) ==
    {p \in AllPaths : \/ h.gm_file /\ h.gitmodules[p] # None
                      \/ h.index[p] # None
                      \/ h.head[p] # None}

\* Repository::find_submodule(name) succeeds
FindSubmodule(h, p) ==
    \/ h.gm_file /\ h.gitmodules[p] # None
    \/ h.index[p] # None
    \/ h.head[p] # None

\* Submodule::workdir_id(): HEAD of the checked-out nested repository
WorkdirId(h, p) ==
    IF h.workdir[p] = "repo" /\ h.sub[p].present THEN h.sub[p].head ELSE None

\* Submodule::index_id(): the commit the host index records for the path
IndexId(h, p) == h.index[p]

\* Submodule::open() succeeds
CanOpen(h, p) ==
    h.workdir[p] = "repo" /\ h.sub[p].present /\ ~h.sub[p].corrupt

\* Submodule::url(): the url of the .gitmodules section
SubmoduleUrl(h, p) == IF h.gm_file THEN h.gitmodules[p] ELSE None

\* the .gitmodules blob as the index or HEAD would hold it: its sections
\* and whether its text ends with a newline
Blob(present, sections, newline) ==
    [present |-> present,
     sections |-> IF present THEN sections ELSE NoLinks,
     newline |-> present /\ newline]

GmBlob(h) == Blob(h.gm_file, h.gitmodules, h.gm_newline)

NoBlob == Blob(FALSE, NoLinks, FALSE)

\* Repository::statuses: some INDEX_NEW, INDEX_MODIFIED or INDEX_DELETED
HasStagedChanges(h) ==
    \/ h.staged_other
    \/ h.index # h.head
    \/ h.index_gm # h.head_gm

-----------------------------------------------------------------------------
(* validation.rs                                                           *)

HasParentDir(path) == ".." \in Range(path)

AllowedSchemes == {"git", "ssh", "https", "http", "file"}

\* the checks validate_repositories makes on one entry by itself
RepoEntryValid(suffix, repo) ==
    /\ Scheme(repo.url) \in AllowedSchemes
    /\ ~IsAbsolute(suffix)
    /\ ~HasParentDir(suffix)

\* seen_paths.insert(full_path) returns false for some entry: two keys
\* join the prefix to equal paths.  (seen_names cannot fail first: equal
\* names come from equal keys, and the keys of the map are distinct.)
DuplicatePath(rs, prefix) ==
    \E s1 \in DOMAIN rs, s2 \in DOMAIN rs :
        s1 # s2 /\ Join(prefix, s1) = Join(prefix, s2)

\* a validation that lets parent-directory components through
validate_repositories_no_parent_check(rs, prefix) ==
    IF /\ ~DuplicatePath(rs, prefix)
       /\ \A suffix \in DOMAIN rs :
            Scheme(rs[suffix].url) \in AllowedSchemes /\ ~IsAbsolute(suffix)
    THEN "Ok" ELSE "Err:config"

\* validate_repositories: Ok iff no entry makes the loop bail
validate_repositories(rs, prefix) ==
    IF /\ ~DuplicatePath(rs, prefix)
       /\ \A suffix \in DOMAIN rs : RepoEntryValid(suffix, rs[suffix])
    THEN "Ok" ELSE "Err:config"

\* a check of the host that looks at the working tree only
validate_main_repo_clean_unstaged(h) == "Ok"

\* validate_main_repo_clean
validate_main_repo_clean(h) ==
    IF HasStagedChanges(h) THEN "Err:staged" ELSE "Ok"

\* the commit validate_submodule_states expects the nested HEAD to be at
ExpectedOid(h, p) == WorkdirId(h, p)

\* the loop body without the check of the statuses
SubmoduleStateError_no_status(h, p) ==
    IF WorkdirId(h, p) = None THEN "not initialized"
    ELSE IF ~CanOpen(h, p) THEN "cannot open"
    ELSE IF h.sub[p].head # ExpectedOid(h, p) THEN "different commit"
    ELSE "Ok"

\* validation.rs:44-59: some status entry of the nested repository is new
\* or modified: a file the user touched, or a file in the index and
\* working tree that the commit at HEAD does not have.  A file of HEAD
\* that is missing is a deletion, which the filter does not count.
ModifiedCount(sub) ==
    (IF sub.dirty THEN 1 ELSE 0) + Cardinality(sub.wt \ Tree(sub.head))

\* the body of the loop of validate_submodule_states for one submodule
SubmoduleStateError(h, p) ==
    IF WorkdirId(h, p) = None THEN "not initialized"
    ELSE IF ~CanOpen(h, p) THEN "cannot open"
    ELSE IF ModifiedCount(h.sub[p]) > 0 THEN "uncommitted changes"
    ELSE IF h.sub[p].head # ExpectedOid(h, p) THEN "different commit"
    ELSE "Ok"

validate_submodule_states(h) ==
    IF \A p \in Submodules(h) : SubmoduleStateError(h, p) = "Ok"
    THEN "Ok" ELSE "Err:submodule_state"

-----------------------------------------------------------------------------
(* utils.rs and the selection block of main                                *)

Some(v) == [some |-> TRUE, v |-> v]
NoneOpt == [some |-> FALSE, v |-> {}]

\* a check that reports the first unknown entry it meets
check_subset_first(all, subset) ==
    IF ~(subset \subseteq all) THEN {CHOOSE x \in subset \ all : TRUE} ELSE {}

\* check_subset: the unknown entries it reports, empty when it succeeds
check_subset(all, subset) ==
    IF ~(subset \subseteq all) THEN subset \ all ELSE {}

\* check_disjoint: the common entries it reports, empty when it succeeds
check_disjoint(lset, rset) ==
    IF lset \cap rset # {} THEN lset \cap rset ELSE {}

\* the outcome of the selection block: Err with the message of the check
\* that bailed and the entries it lists, or Ok with the selected suffixes
SelectionErr(why, reported) ==
    [err |-> "Err:selection", suffixes |-> {}, why |-> why,
     reported |-> reported]
SelectionOk(suffixes) ==
    [err |-> "Ok", suffixes |-> suffixes, why |-> None, reported |-> {}]

\* a selection that does not take the ignored suffixes out
SelectSuffixes_keeps_ignored(all_suffixes, o) ==
    IF check_subset(all_suffixes, o.ignore.v) # {}
    THEN SelectionErr("not found", check_subset(all_suffixes, o.ignore.v))
    ELSE IF o.only.some
    THEN IF check_subset(all_suffixes, o.only.v) # {}
         THEN SelectionErr("not found", check_subset(all_suffixes, o.only.v))
         ELSE SelectionOk(o.only.v)
    ELSE SelectionOk(all_suffixes)

\* main.rs:72-109
SelectSuffixes(all_suffixes, o) ==
    LET skipped_suffixes == o.ignore.v
    IN  IF check_subset(all_suffixes, skipped_suffixes) # {}
        THEN SelectionErr("not found",
                          check_subset(all_suffixes, skipped_suffixes))
        ELSE IF o.only.some
        THEN IF check_subset(all_suffixes, o.only.v) # {}
             THEN SelectionErr("not found",
                               check_subset(all_suffixes, o.only.v))
             ELSE IF check_disjoint(o.only.v, skipped_suffixes) # {}
             THEN SelectionErr("conflict",
                               check_disjoint(o.only.v, skipped_suffixes))
             ELSE SelectionOk(o.only.v \ skipped_suffixes)
        ELSE SelectionOk((all_suffixes \ skipped_suffixes) \ skipped_suffixes)

\* the map main builds from the selected suffixes: full path -> Repo
SelectedRepos(rs, o, suffixes) ==
    [path \in {Join(o.prefix, suffix) : suffix \in suffixes} |->
        rs[CHOOSE suffix \in suffixes : Join(o.prefix, suffix) = path]]

\* main.rs:112-119
TypesSupported(sel) == \A path \in DOMAIN sel : sel[path].type = "git"

-----------------------------------------------------------------------------
(* classify_submodules                                                     *)

\* a classifier that takes every selected path for an existing one
classify_submodules_all_updated(selected_paths, submod_paths, prefix) ==
    LET new_paths == selected_paths \ submod_paths
        updated_paths == selected_paths
        removed_paths == {path \in submod_paths \ selected_paths :
                             StartsWith(path, prefix)}
    IN  [new |-> SortPaths(new_paths),
         updated |-> SortPaths(updated_paths),
         removed |-> SortPaths(removed_paths)]

\* a classifier without the starts_with filter
classify_submodules_unfiltered(selected_paths, submod_paths, prefix) ==
    LET new_paths == selected_paths \ submod_paths
        updated_paths == selected_paths \cap submod_paths
        removed_paths == submod_paths \ selected_paths
    IN  [new |-> SortPaths(new_paths),
         updated |-> SortPaths(updated_paths),
         removed |-> SortPaths(removed_paths)]

\* the three sorted path lists, from the key sets of the two maps
\* a classifier that takes every selected path for a new one
classify_submodules_all_new(selected_paths, submod_paths, prefix) ==
    [new |-> SortPaths(selected_paths),
     updated |-> <<>>,
     removed |-> SortPaths({path \in submod_paths \ selected_paths :
                              StartsWith(path, prefix)})]

classify_submodules(selected_paths, submod_paths, prefix) ==
    LET new_paths == selected_paths \ submod_paths
        updated_paths == selected_paths \cap submod_paths
        removed_paths == {path \in submod_paths \ selected_paths :
                             StartsWith(path, prefix)}
    IN  [new |-> SortPaths(new_paths),
         updated |-> SortPaths(updated_paths),
         removed |-> SortPaths(removed_paths)]

-----------------------------------------------------------------------------
(* git_ops.rs: fetch and checkout inside one nested repository             *)

SetSub(h, p, sub) == [h EXCEPT !.sub[p] = sub]

\* fetch(repo, "origin", version), the refspec being [version]: [ok, sub].
\* A branch of the remote brings its history and moves the remote-tracking
\* branch; an object id the repository lacks brings the objects and moves
\* no reference; an object id it has already, or a name the remote does
\* not have, brings nothing, and the fetch is Ok.
fetch(sub, version) ==
    IF ~Reachable(sub.origin) THEN [ok |-> FALSE, sub |-> sub]
    ELSE IF version = VMain
    THEN [ok |-> TRUE,
          sub |-> [sub EXCEPT !.objects = @ \cup RemoteObjects,
                              !.remote_main = RemoteMain]]
    ELSE IF version \in RemoteObjects \ sub.objects
    THEN [ok |-> TRUE, sub |-> [sub EXCEPT !.objects = @ \cup RemoteObjects]]
    ELSE [ok |-> TRUE, sub |-> sub]

\* a revision spec: the version itself, or format!("origin/{version}")
DirectSpec(version) == [origin |-> FALSE, name |-> version]
OriginSpec(version) == [origin |-> TRUE, name |-> version]

LocalMainRef == "refs/heads/main"
RemoteMainRef == "refs/remotes/origin/main"

RefNotFound == [status |-> "ref_not_found", id |-> None, ref |-> None]

\* Repository::revparse_ext: [status, id, ref]
RevparseExt(sub, spec) ==
    IF spec.origin
    THEN IF spec.name = VMain /\ sub.remote_main # None
         THEN [status |-> "ok", id |-> sub.remote_main, ref |-> RemoteMainRef]
         ELSE RefNotFound
    ELSE IF spec.name = VMain /\ sub.local_main # None
         THEN [status |-> "ok", id |-> sub.local_main, ref |-> LocalMainRef]
         ELSE IF spec.name \in sub.objects
         THEN [status |-> "ok", id |-> spec.name, ref |-> None]
         ELSE RefNotFound

\* Repository::checkout_tree(obj, None): a safe checkout against the commit
\* at HEAD, [ok, wt].  A file the target adds to HEAD and that is in the
\* working tree already is a conflict: the call fails and changes nothing.
\* Otherwise, in a repository with an index file, the files in which the
\* target differs from HEAD become the target's and every other file
\* stays as the index and working tree have it.  In a repository without
\* an index file the checkout is an initial one: it also writes the files
\* HEAD and the target share, so every file of the target is there.
checkout_tree(sub, id) ==
    IF (Tree(id) \ Tree(sub.head)) \cap sub.wt # {}
    THEN [ok |-> FALSE, wt |-> sub.wt]
    ELSE IF sub.index_file
    THEN [ok |-> TRUE,
          wt |-> (sub.wt \ (Tree(sub.head) \ Tree(id)))
                     \cup (Tree(id) \ Tree(sub.head))]
    ELSE [ok |-> TRUE, wt |-> (sub.wt \ Tree(sub.head)) \cup Tree(id)]

\* Repository::set_head attaches HEAD only to a local branch
IsBranch(ref) == ref = LocalMainRef

\* the calls of checkout_to_spec after revparse_ext at which an error can
\* be injected
CheckoutFaults == {"checkout_tree", "set_head"}

\* a checkout_to_spec that moves HEAD only when it checks the tree out
checkout_to_spec_head_with_checkout(sub, spec, checkout, fault) ==
    LET r == RevparseExt(sub, spec)
        t == checkout_tree(sub, r.id)
        s2 == [sub EXCEPT !.wt = t.wt, !.index_file = TRUE, !.head = r.id,
                          !.attached = IsBranch(r.ref)]
    IN  IF r.status # "ok" THEN [status |-> r.status, sub |-> sub]
        ELSE IF checkout /\ (fault = "checkout_tree" \/ ~t.ok)
        THEN [status |-> "checkout_tree", sub |-> sub]
        ELSE IF fault = "set_head" THEN [status |-> "set_head", sub |-> sub]
        ELSE [status |-> "ok", sub |-> IF checkout THEN s2 ELSE sub]

\* checkout_to_spec: [status, sub]; status is "ok", "ref_not_found" or the
\* call that failed
checkout_to_spec(sub, spec, checkout, fault) ==
    LET r == RevparseExt(sub, spec)
        t == checkout_tree(sub, r.id)
        s1 == IF checkout THEN [sub EXCEPT !.wt = t.wt, !.index_file = TRUE]
              ELSE sub
        s2 == IF r.ref # None
              THEN [s1 EXCEPT !.head = r.id, !.attached = IsBranch(r.ref)]
              ELSE [s1 EXCEPT !.head = r.id, !.attached = FALSE]
    IN  IF r.status # "ok" THEN [status |-> r.status, sub |-> sub]
        ELSE IF checkout /\ (fault = "checkout_tree" \/ ~t.ok)
        THEN [status |-> "checkout_tree", sub |-> sub]
        ELSE IF fault = "set_head" THEN [status |-> "set_head", sub |-> s1]
        ELSE [status |-> "ok", sub |-> s2]

\* one call of checkout_to_spec as checkout_to_version keeps it
Attempt(spec, r) == [spec |-> spec, status |-> r.status]

\* a checkout_to_version without the fallback
checkout_to_version_direct_only(sub, version, checkout, fault) ==
    LET result1 == checkout_to_spec(sub, DirectSpec(version), checkout, fault)
    IN  [status |-> result1.status, sub |-> result1.sub,
         tried |-> <<Attempt(DirectSpec(version), result1)>>]

\* a checkout_to_version that goes to origin/<version> after any error
checkout_to_version_any_error(sub, version, checkout, fault) ==
    LET result1 == checkout_to_spec(sub, DirectSpec(version), checkout, fault)
        result2 == checkout_to_spec(sub, OriginSpec(version), checkout, fault)
    IN  IF result1.status = "ok"
        THEN [status |-> "ok", sub |-> result1.sub,
              tried |-> <<Attempt(DirectSpec(version), result1)>>]
        ELSE [status |-> result2.status, sub |-> result2.sub,
              tried |-> <<Attempt(DirectSpec(version), result1),
                          Attempt(OriginSpec(version), result2)>>]

\* checkout_to_version: [status, sub, tried]; tried lists the calls of
\* checkout_to_spec with their results
checkout_to_version(sub, version, checkout, fault) ==
    LET result1 == checkout_to_spec(sub, DirectSpec(version), checkout, fault)
        result2 == checkout_to_spec(sub, OriginSpec(version), checkout, fault)
    IN  IF result1.status = "ok"
        THEN [status |-> "ok", sub |-> result1.sub,
              tried |-> <<Attempt(DirectSpec(version), result1)>>]
        ELSE IF result1.status = "ref_not_found"
        THEN [status |-> result2.status, sub |-> result2.sub,
              tried |-> <<Attempt(DirectSpec(version), result1),
                          Attempt(OriginSpec(version), result2)>>]
        ELSE [status |-> result1.status, sub |-> result1.sub,
              tried |-> <<Attempt(DirectSpec(version), result1)>>]

-----------------------------------------------------------------------------
(* git_ops.rs: .gitmodules and the removal of a submodule                  *)

OpResult(err, h) == [err |-> err, host |-> h, tried |-> <<>>]

\* the result of an operation that got to checkout_to_version
Checked(r, c) == [r EXCEPT !.tried = c.tried]

\* update_gitmodules_file: drops the sections headed by name or by path;
\* [err, host] with err "Ok", "no file" or "no section"
update_gitmodules_file(h, path, name, must_exist) ==
    LET found == h.gitmodules[name] # None \/ h.gitmodules[path] # None
        sections == [h.gitmodules EXCEPT ![name] = None, ![path] = None]
    IN  IF ~h.gm_file
        THEN OpResult(IF must_exist THEN "no file" ELSE "Ok", h)
        ELSE IF must_exist /\ ~found THEN OpResult("no section", h)
        ELSE IF sections = NoLinks
        THEN OpResult("Ok", [h EXCEPT !.gm_file = FALSE,
                                      !.gm_newline = FALSE,
                                      !.gitmodules = NoLinks,
                                      !.index_gm = NoBlob])
        ELSE OpResult("Ok", [h EXCEPT !.gitmodules = sections,
                                      !.gm_newline = FALSE,
                                      !.index_gm = Blob(TRUE, sections, FALSE)])

\* the steps of remove_submodule at which an I/O error can be injected
RemoveFaults == {"none", "index", "gitmodules", "modules", "workdir"}

\* a removal that returns Ok after the .gitmodules step
remove_submodule_unregisters(h, path, fault) ==
    LET h1 == [h EXCEPT !.config[path] = None]
        h2 == [h1 EXCEPT !.index[path] = None]
        g  == update_gitmodules_file(h2, path, path, TRUE)
    IN  IF ~FindSubmodule(h, path) THEN OpResult("find", h)
        ELSE IF fault = "index" THEN OpResult("index", h1)
        ELSE IF fault = "gitmodules" \/ g.err # "Ok"
        THEN OpResult("gitmodules", h2)
        ELSE OpResult("Ok", g.host)

\* a removal that fails without a trace
remove_submodule_all_or_nothing(h, path, fault) ==
    LET h1 == [h EXCEPT !.config[path] = None]
        h2 == [h1 EXCEPT !.index[path] = None]
        g  == update_gitmodules_file(h2, path, path, TRUE)
        h5 == [g.host EXCEPT !.sub[path] = NoSub, !.workdir[path] = "absent"]
    IN  IF ~FindSubmodule(h, path) THEN OpResult("find", h)
        ELSE IF fault = "gitmodules" \/ g.err # "Ok"
        THEN OpResult("gitmodules", h)
        ELSE IF fault # "none" THEN OpResult(fault, h)
        ELSE OpResult("Ok", h5)

\* remove_submodule: [err, host]; err is "Ok" or the step that failed
remove_submodule(h, path, fault) ==
    LET h1 == [h EXCEPT !.config[path] = None]
        h2 == [h1 EXCEPT !.index[path] = None]
        g  == update_gitmodules_file(h2, path, path, TRUE)
        h3 == g.host
        h4 == [h3 EXCEPT !.sub[path] = NoSub]
        h5 == [h4 EXCEPT !.workdir[path] = "absent"]
    IN  IF ~FindSubmodule(h, path) THEN OpResult("find", h)
        ELSE IF fault = "index" THEN OpResult("index", h1)
        ELSE IF fault = "gitmodules" \/ g.err # "Ok"
        THEN OpResult("gitmodules", h2)
        ELSE IF fault = "modules" THEN OpResult("modules", h3)
        ELSE IF fault = "workdir" THEN OpResult("workdir", h4)
        ELSE OpResult("Ok", h5)

\* a lenient removal that leaves the working directory behind
remove_submodule_rollback_keeps_workdir(h, path) ==
    LET named == FindSubmodule(h, path)
        h1 == IF named THEN [h EXCEPT !.config[path] = None] ELSE h
        h2 == [h1 EXCEPT !.index[path] = None]
        h3 == update_gitmodules_file(h2, path, path, FALSE).host
        h4 == [h3 EXCEPT !.sub[path] = NoSub]
    IN  h4

\* remove_submodule_rollback: the host after the lenient removal
remove_submodule_rollback(h, path) ==
    LET named == FindSubmodule(h, path)
        h1 == IF named THEN [h EXCEPT !.config[path] = None] ELSE h
        h2 == [h1 EXCEPT !.index[path] = None]
        h3 == update_gitmodules_file(h2, path, path, FALSE).host
        h4 == [h3 EXCEPT !.sub[path] = NoSub]
        h5 == [h4 EXCEPT !.workdir[path] = "absent"]
    IN  h5

-----------------------------------------------------------------------------
(* main.rs: the closures of process_submodule_operations                   *)

\* Repository::submodule(url, path, true): the .gitmodules section first
SectionWritten(h, path, url) ==
    [h EXCEPT !.gm_file = TRUE, !.gm_newline = TRUE, !.gitmodules[path] = url]

\* ... then the nested repository with remote origin, then .git/config
SubmoduleSetup(h, path, url) ==
    [SectionWritten(h, path, url) EXCEPT
        !.sub[path] = SubRepo(None, {}, url),
        !.workdir[path] = "repo",
        !.config[path] = url]

\* a finalize that stages nothing
AddFinalize_stages_nothing(h, path) == h

\* Submodule::add_finalize: stages .gitmodules and the gitlink
AddFinalize(h, path) ==
    [h EXCEPT !.index_gm = GmBlob(h), !.index[path] = h.sub[path].head]

\* the steps of an Add at which an I/O error can be injected
AddFaults ==
    {"none", "submodule", "open", "fetch", "checkout", "finalize"}
        \cup CheckoutFaults

\* main.rs:231-252: [err, host]; err is "Ok" or the step that failed
AddSubmodule(h, path, repo, o, fault) ==
    LET h1 == SubmoduleSetup(h, path, repo.url)
        f  == fetch(h1.sub[path], repo.version)
        c  == checkout_to_version(f.sub, repo.version, ~o.no_checkout, fault)
        h2 == SetSub(h1, path, c.sub)
    IN  IF FindSubmodule(h, path) THEN OpResult("submodule", h)
        ELSE IF fault = "submodule"
        THEN OpResult("submodule", SectionWritten(h, path, repo.url))
        ELSE IF fault = "open" \/ ~CanOpen(h1, path) THEN OpResult("open", h1)
        ELSE IF fault = "fetch" \/ ~f.ok THEN OpResult("fetch", h1)
        ELSE IF fault = "checkout"
        THEN OpResult("checkout", SetSub(h1, path, f.sub))
        ELSE IF c.status # "ok" THEN Checked(OpResult("checkout", h2), c)
        ELSE IF fault = "finalize" THEN Checked(OpResult("finalize", h2), c)
        ELSE Checked(OpResult("Ok", AddFinalize(h2, path)), c)

\* Repository::submodule_set_url: the configuration writer leaves the file
\* alone when the section has the URL already, and ends the text it writes
\* with a newline
submodule_set_url(h, name, url) ==
    IF h.gitmodules[name] = url THEN h
    ELSE [h EXCEPT !.gitmodules[name] = url, !.gm_newline = TRUE]

\* the steps of an Update at which an I/O error can be injected
UpdateFaults == {"none", "open", "finalize"} \cup CheckoutFaults

\* main.rs:278-291: [err, host]
UpdateSubmodule(h, name, repo, o, fault) ==
    LET h1 == submodule_set_url(h, name, repo.url)
        f  == fetch(h1.sub[name], repo.version)
        c  == checkout_to_version(f.sub, repo.version, ~o.no_checkout, fault)
        h2 == SetSub(h1, name, c.sub)
    IN  IF ~FindSubmodule(h1, name) THEN OpResult("find", h1)
        ELSE IF fault = "open" \/ ~CanOpen(h1, name) THEN OpResult("open", h1)
        ELSE IF ~f.ok THEN OpResult("fetch", h1)
        ELSE IF c.status # "ok" THEN Checked(OpResult("checkout", h2), c)
        ELSE IF fault = "finalize" THEN Checked(OpResult("finalize", h2), c)
        ELSE Checked(OpResult("Ok", AddFinalize(h2, name)), c)

-----------------------------------------------------------------------------
(* state.rs                                                                *)

SubmoduleState(name, path, commit, url) ==
    [name |-> name, path |-> path, commit |-> commit, url |-> url]

\* a capture that takes a submodule without a URL as it is
TrackerFails_without_url(h) ==
    \E p \in Submodules(h) : WorkdirId(h, p) = None

\* SubmoduleStateTracker::new fails
TrackerFails(h) ==
    \E p \in Submodules(h) : WorkdirId(h, p) = None \/ SubmoduleUrl(h, p) = None

\* SubmoduleStateTracker::new: original_states, keyed by name
TrackerNew(h) ==
    [p \in Submodules(h) |->
        SubmoduleState(p, p, WorkdirId(h, p), SubmoduleUrl(h, p))]

\* the calls of the loop body after find_object at which an I/O error can
\* be injected: checkout_tree, set_head_detached, and the calls on the
\* host index
RestoreFaults == {"none", "checkout_tree", "set_head", "index"}

\* a restore that checks the tree out but leaves HEAD where it is
RestoreState_keeps_head(h, name, state, fault) ==
    LET t  == checkout_tree(h.sub[name], state.commit)
        s1 == [h.sub[name] EXCEPT !.wt = t.wt, !.index_file = TRUE]
        h1 == SetSub(h, name, s1)
    IN  IF ~FindSubmodule(h, name) THEN OpResult("find", h)
        ELSE IF ~CanOpen(h, name) THEN OpResult("open", h)
        ELSE IF state.commit \notin h.sub[name].objects
        THEN OpResult("find_object", h)
        ELSE IF fault = "checkout_tree" \/ ~t.ok
        THEN OpResult("checkout_tree", h)
        ELSE IF fault \in {"set_head", "index"} THEN OpResult(fault, h1)
        ELSE OpResult("Ok", [h1 EXCEPT !.index[state.path] = h1.sub[name].head])

\* the body of the loop of SubmoduleStateTracker::rollback: [err, host];
\* err is "Ok" or the call that failed
RestoreState(h, name, state, fault) ==
    LET t  == checkout_tree(h.sub[name], state.commit)
        s1 == [h.sub[name] EXCEPT !.wt = t.wt, !.index_file = TRUE]
        s2 == [s1 EXCEPT !.head = state.commit, !.attached = FALSE]
        h2 == SetSub(h, name, s2)
    IN  IF ~FindSubmodule(h, name) THEN OpResult("find", h)
        ELSE IF ~CanOpen(h, name) THEN OpResult("open", h)
        ELSE IF state.commit \notin h.sub[name].objects
        THEN OpResult("find_object", h)
        ELSE IF fault = "checkout_tree" \/ ~t.ok
        THEN OpResult("checkout_tree", h)
        ELSE IF fault = "set_head" THEN OpResult("set_head", SetSub(h, name, s1))
        ELSE IF fault = "index" THEN OpResult("index", h2)
        ELSE OpResult("Ok", [h2 EXCEPT !.index[state.path] = state.commit])

-----------------------------------------------------------------------------
(* The states a run can start from.                                        *)

Prefix == <<"src">>

\* a host whose submodules R were added at commit c1 from Repo1Url and,
\* when `committed`, committed
HostWith(R, committed, prefix_dir) ==
    LET links == [p \in AllPaths |-> IF p \in R THEN "c1" ELSE None]
        urls  == [p \in AllPaths |-> IF p \in R THEN Repo1Url ELSE None]
    IN  [gm_file |-> R # {},
         gm_newline |-> R # {},
         gitmodules |-> urls,
         config |-> urls,
         index |-> links,
         index_gm |-> Blob(R # {}, urls, TRUE),
         head |-> IF committed THEN links ELSE NoLinks,
         head_gm |-> IF committed THEN Blob(R # {}, urls, TRUE) ELSE NoBlob,
         staged_other |-> FALSE,
         sub |-> [p \in AllPaths |->
                    IF p \in R THEN SubRepo("c1", Tree("c1"), Repo1Url) ELSE NoSub],
         workdir |-> [p \in AllPaths |-> IF p \in R THEN "repo" ELSE "absent"],
         prefix_dir |-> prefix_dir \/ \E p \in R : StartsWith(p, Prefix)]

\* the same host with one submodule d in another condition
WithCondition(h, d, kind) ==
    CASE kind = "drift" ->
            [h EXCEPT !.sub[d].head = "c2", !.sub[d].wt = Tree("c2"),
                      !.sub[d].remote_main = "c2",
                      !.sub[d].objects = {"c1", "c2"}]
      [] kind = "ahead" ->
            [h EXCEPT !.sub[d].head = "c2", !.sub[d].wt = Tree("c2"),
                      !.sub[d].remote_main = "c2",
                      !.sub[d].objects = {"c1", "c2"},
                      !.index[d] = "c2", !.head[d] = "c2"]
      [] kind = "uninit" ->
            [h EXCEPT !.sub[d] = NoSub, !.workdir[d] = "dir"]
      [] kind = "corrupt" -> [h EXCEPT !.sub[d].corrupt = TRUE]
      [] kind = "dirty" -> [h EXCEPT !.sub[d].dirty = TRUE]
      [] kind = "nosection" ->
            LET sections == [h.gitmodules EXCEPT ![d] = None]
            IN  [h EXCEPT !.gitmodules = sections,
                          !.index_gm = Blob(TRUE, sections, TRUE),
                          !.head_gm = Blob(TRUE, sections, TRUE)]

RejectedConditions == {"uninit", "corrupt", "dirty", "nosection"}

\* hosts with nothing staged whose submodules are all clean, or clean but
\* for one that was moved to another commit after it was recorded, or with
\* src/a recorded and checked out at the second commit
SoundHosts ==
    {HostWith(R, TRUE, pd) : R \in SUBSET AllPaths, pd \in BOOLEAN}
    \cup UNION {{WithCondition(HostWith(R, TRUE, TRUE), d, "drift") : d \in R} :
                  R \in SUBSET AllPaths}
    \cup {WithCondition(HostWith(R, TRUE, TRUE), SrcA, "ahead") :
             R \in {S \in SUBSET AllPaths : SrcA \in S}}

\* hosts with something staged, or with one submodule in a bad condition
UnsoundHosts ==
    {[HostWith(R, TRUE, TRUE) EXCEPT !.staged_other = TRUE] :
        R \in SUBSET AllPaths}
    \cup {HostWith(R, FALSE, TRUE) : R \in SUBSET AllPaths \ {{}}}
    \cup UNION {{WithCondition(HostWith(R, TRUE, TRUE), d, kind) :
                     d \in R, kind \in RejectedConditions} :
                  R \in SUBSET AllPaths}
    \cup {WithCondition(HostWith({LibC}, TRUE, FALSE), LibC, kind) :
             kind \in RejectedConditions}

ValidVariants == {r \in RepoVariants : r.type = "git" /\ Scheme(r.url) = "file"}

ReposFiles(variants) ==
    UNION {[K -> variants] : K \in SUBSET Suffixes}

Flags == [no_checkout : BOOLEAN, skip_existing : BOOLEAN,
          sync_selection : BOOLEAN, dry_run : BOOLEAN]

Filter(only, ignore) == [only |-> only, ignore |-> ignore]

SoundFilters ==
    { Filter(NoneOpt, NoneOpt),
      Filter(Some({<<"a">>}), NoneOpt),
      Filter(NoneOpt, Some({<<"a">>})) }

\* filters naming an undeclared key, and filters given together
UnsoundFilters ==
    { Filter(Some({UnknownSuffix}), NoneOpt),
      Filter(NoneOpt, Some({UnknownSuffix})),
      Filter(Some({<<"a">>, UnknownSuffix}), NoneOpt),
      Filter(NoneOpt, Some({<<"a">>, UnknownSuffix})),
      Filter(Some({<<"a">>}), Some({<<"a">>})),
      Filter(Some({<<"a">>}), Some({<<"b">>})) }

Opts(flags, filter) ==
    [prefix |-> Prefix, only |-> filter.only, ignore |-> filter.ignore,
     no_checkout |-> flags.no_checkout, skip_existing |-> flags.skip_existing,
     sync_selection |-> flags.sync_selection, dry_run |-> flags.dry_run]

\* an executor that updates whatever the flag says
should_update_always(o) == TRUE

\* Opts::should_update
should_update(o) == ~o.skip_existing

\* no error; `reported` is the list of entries an error message carries
NoFailure == [op |-> None, path |-> <<>>, step |-> None, reported |-> {}]

Start(h, rs, o) ==
    /\ pc = "start"
    /\ host = h
    /\ pre = h
    /\ earlier = <<>>
    /\ attempts = <<>>
    /\ gm_text = NoFile
    /\ gm_call = NoCall
    /\ repos = rs
    /\ opts = o
    /\ submod_names = {}
    /\ selected_repos = <<>>
    /\ new_repos = <<>>
    /\ updated_submods = <<>>
    /\ removed_repos = <<>>
    /\ tracker = <<>>
    /\ completed_new = <<>>
    /\ cursor = 1
    /\ pending = {}
    /\ failure = NoFailure
    /\ rollback_err = FALSE
    /\ result = "running"
    /\ log = <<>>

\* sound hosts, valid repos files, every combination of the flags
InitSound ==
    \E h \in SoundHosts, rs \in ReposFiles(ValidVariants),
       fl \in Flags, fi \in SoundFilters :
        Start(h, rs, Opts(fl, fi))

\* hosts the validator has to judge
InitUnsound ==
    \E h \in UnsoundHosts,
       rs \in ReposFiles({Repo("git", Repo1Url, VMain), Repo("git", FtpUrl, VMain)}),
       fl \in {f \in Flags : ~f.no_checkout /\ ~f.skip_existing} :
        Start(h, rs, Opts(fl, Filter(NoneOpt, NoneOpt)))

\* repos files and filters the run has to reject
InitRejected ==
    \E h \in {HostWith(R, TRUE, TRUE) : R \in {{}, {SrcA}, {SrcA, LibC}}},
       rs \in ReposFiles(RepoVariants),
       fl \in {f \in Flags : ~f.no_checkout /\ ~f.skip_existing},
       fi \in SoundFilters \cup UnsoundFilters :
        /\ rs \notin ReposFiles(ValidVariants) \/ fi \notin SoundFilters
        /\ Start(h, rs, Opts(fl, fi))

\* keys that are absolute, climb out of the prefix, or start with "."
AbsoluteSuffix == <<"/", "a">>
ParentSuffix == <<"..", "a">>
CurDirSuffix == <<".", "a">>

\* repos files with such keys: each by itself or next to a plain key
OddKeyFiles ==
    LET r == Repo("git", Repo1Url, VMain)
    IN  { (AbsoluteSuffix :> r),
          (ParentSuffix :> r),
          (<<"a">> :> r) @@ (ParentSuffix :> r),
          (<<"a">> :> r) @@ (AbsoluteSuffix :> r),
          (<<"a">> :> r) @@ (CurDirSuffix :> r),
          (<<"b">> :> r) @@ (CurDirSuffix :> r) @@ (<<"a">> :> r) }

\* repos files whose keys validate_repositories has to judge
InitOddKeys ==
    \E h \in {HostWith(R, TRUE, TRUE) : R \in {{}, {SrcA}}},
       rs \in OddKeyFiles,
       fl \in {f \in Flags : ~f.no_checkout /\ ~f.skip_existing},
       fi \in SoundFilters :
        Start(h, rs, Opts(fl, fi))

Init == InitSound \/ InitUnsound \/ InitRejected \/ InitOddKeys

-----------------------------------------------------------------------------
(* main(): one action per step of its body.                                *)

Finish(r) == pc' = "done" /\ result' = r

\* a command line parser without the group
ArgGroupConflict_off(o) == FALSE

\* cli.rs:7-11: --only conflicts with --ignore
ArgGroupConflict(o) == o.only.some /\ o.ignore.some

\* main.rs:29-62: parse the options, list the submodules, validate the
\* repos file
ValidateRepositories ==
    /\ pc = "start"
    /\ IF ArgGroupConflict(opts)
       THEN Finish("Err:usage") /\ UNCHANGED submod_names
       ELSE /\ submod_names' = Submodules(host)
            /\ IF validate_repositories(repos, opts.prefix) # "Ok"
               THEN Finish(validate_repositories(repos, opts.prefix))
               ELSE pc' = "validate_main" /\ UNCHANGED result
    /\ UNCHANGED <<host, pre, earlier, gm_text, gm_call, attempts, repos, opts, selected_repos, new_repos,
                   updated_submods, removed_repos, tracker, completed_new,
                   cursor, pending, failure, rollback_err, log>>

\* main.rs:64-65
ValidateMainRepoClean ==
    /\ pc = "validate_main"
    /\ IF validate_main_repo_clean(host) # "Ok"
       THEN Finish(validate_main_repo_clean(host))
       ELSE pc' = "validate_submodules" /\ UNCHANGED result
    /\ UNCHANGED <<host, pre, earlier, gm_text, gm_call, attempts, repos, opts, submod_names, selected_repos,
                   new_repos, updated_submods, removed_repos, tracker,
                   completed_new, cursor, pending, failure, rollback_err, log>>

\* main.rs:67-70
ValidateSubmoduleStates ==
    /\ pc = "validate_submodules"
    /\ IF validate_submodule_states(host) # "Ok"
       THEN Finish(validate_submodule_states(host))
       ELSE pc' = "select" /\ UNCHANGED result
    /\ UNCHANGED <<host, pre, earlier, gm_text, gm_call, attempts, repos, opts, submod_names, selected_repos,
                   new_repos, updated_submods, removed_repos, tracker,
                   completed_new, cursor, pending, failure, rollback_err, log>>

\* main.rs:72-119: the selection and the check of the repository types
Select ==
    /\ pc = "select"
    /\ LET sel == SelectSuffixes(DOMAIN repos, opts)
           map == SelectedRepos(repos, opts, sel.suffixes)
       IN  IF sel.err # "Ok"
           THEN /\ Finish(sel.err)
                /\ failure' = [NoFailure EXCEPT !.op = "select",
                                                !.step = sel.why,
                                                !.reported = sel.reported]
                /\ UNCHANGED selected_repos
           ELSE /\ selected_repos' = map
                /\ UNCHANGED failure
                /\ IF ~TypesSupported(map)
                   THEN Finish("Err:type")
                   ELSE pc' = "classify" /\ UNCHANGED result
    /\ UNCHANGED <<host, pre, earlier, gm_text, gm_call, attempts, repos, opts, submod_names, new_repos,
                   updated_submods, removed_repos, tracker, completed_new,
                   cursor, pending, rollback_err, log>>

\* fs::create_dir_all(prefix): the directory and every missing directory
\* above it are made; what stands at a path already stays as it is
create_dir_all(h, prefix) ==
    [h EXCEPT !.prefix_dir = TRUE,
              !.workdir = [p \in DOMAIN h.workdir |->
                              IF h.workdir[p] = "absent" /\ StartsWith(prefix, p)
                              THEN "dir" ELSE h.workdir[p]]]

\* main.rs:121-124: classify, then fs::create_dir_all(&opts.prefix)
Classify ==
    /\ pc = "classify"
    /\ LET c == classify_submodules(DOMAIN selected_repos, submod_names,
                                    opts.prefix)
       IN  /\ new_repos' = c.new
           /\ updated_submods' = c.updated
           /\ removed_repos' = c.removed
    /\ host' = create_dir_all(host, opts.prefix)
    /\ pc' = "snapshot"
    /\ UNCHANGED <<pre, earlier, gm_text, gm_call, attempts, repos, opts, submod_names, selected_repos, tracker,
                   completed_new, cursor, pending, failure, rollback_err,
                   result, log>>

\* an executor whose remove loop does not ask for --sync-selection
Advance_removes_unasked(phase, i) ==
    LET u == IF phase = "update" THEN i ELSE 1
        r == IF phase = "remove" THEN i ELSE 1
    IN  IF phase = "add" /\ i <= Len(new_repos)
        THEN [pc |-> "add", cursor |-> i]
        ELSE IF /\ phase \in {"add", "update"}
                /\ should_update(opts)
                /\ u <= Len(updated_submods)
        THEN [pc |-> "update", cursor |-> u]
        ELSE IF r <= Len(removed_repos)
        THEN [pc |-> "remove", cursor |-> r]
        ELSE [pc |-> "done", cursor |-> r]

\* the loop of process_submodule_operations that runs after position i of
\* `phase`: [pc, cursor], skipping the loops that have nothing to do
RECURSIVE Advance(_, _)
Advance(phase, i) ==
    IF phase = "add"
    THEN IF i <= Len(new_repos) THEN [pc |-> "add", cursor |-> i]
         ELSE Advance("update", 1)
    ELSE IF phase = "update"
    THEN IF should_update(opts) /\ i <= Len(updated_submods)
         THEN [pc |-> "update", cursor |-> i]
         ELSE Advance("remove", 1)
    ELSE IF opts.sync_selection /\ i <= Len(removed_repos)
         THEN [pc |-> "remove", cursor |-> i]
         ELSE [pc |-> "done", cursor |-> i]

\* continue after the operation at position i of `phase` returned Ok; the
\* run ends with Ok when process_submodule_operations has nothing left
Continue(phase, i) ==
    LET n == Advance(phase, i)
    IN  /\ pc' = n.pc
        /\ cursor' = n.cursor
        /\ result' = IF n.pc = "done" THEN "Ok" ELSE result

\* main.rs:126-145: capture the snapshot, count the operations
total_operations ==
    Len(new_repos)
    + (IF should_update(opts) THEN Len(updated_submods) ELSE 0)
    + (IF opts.sync_selection THEN Len(removed_repos) ELSE 0)

Snapshot ==
    /\ pc = "snapshot"
    /\ IF TrackerFails(host)
       THEN Finish("Err:snapshot") /\ UNCHANGED <<tracker, cursor>>
       ELSE /\ tracker' = TrackerNew(host)
            /\ IF total_operations = 0
               THEN Finish("Ok") /\ UNCHANGED cursor
               ELSE Continue("add", 1)
    /\ UNCHANGED <<host, pre, earlier, gm_text, gm_call, attempts, repos, opts, submod_names, selected_repos,
                   new_repos, updated_submods, removed_repos, completed_new,
                   pending, failure, rollback_err, log>>

Failure(op, path, step) ==
    [op |-> op, path |-> path, step |-> step, reported |-> {}]

\* a main that logs the Err of the executor and returns Ok
Fail_swallowed(f) ==
    /\ failure' = f
    /\ cursor' = 1
    /\ Finish("Ok")

\* an executor that goes on with the next operation after an Err
Fail_goes_on(f) ==
    /\ failure' = f
    /\ Continue(f.op, cursor + 1)

\* main.rs:164-196: what main does with the Err of the executor
Fail(f) ==
    /\ failure' = f
    /\ cursor' = 1
    /\ IF ~opts.dry_run
       THEN pc' = "rollback_new" /\ UNCHANGED result
       ELSE Finish("Err:failed")

\* an executor that takes no notice of --dry-run
dry_run_ignored(o) == FALSE

\* main.rs:221, 270, 312: with --dry-run each loop only reports the operation
dry_run_reports_only(o) == o.dry_run

\* an Add loop that records a path only when its Add returned Ok
completed_new_push_on_ok(completed, path, err) ==
    IF err = "Ok" THEN Append(completed, path) ELSE completed

\* main.rs:254-265: completed_new.push(path) in the Ok arm and in the Err arm
completed_new_push(completed, path, err) == Append(completed, path)

\* main.rs:220-266: one iteration of the loop over new_repos
AddNew ==
    /\ pc = "add"
    /\ LET path == new_repos[cursor]
       IN  IF dry_run_reports_only(opts)
           THEN /\ log' = Append(log, <<"would add", path>>)
                /\ Continue("add", cursor + 1)
                /\ UNCHANGED <<host, completed_new, failure, attempts>>
           ELSE \E fault \in AddFaults :
                LET r == AddSubmodule(host, path, selected_repos[path], opts,
                                      fault)
                IN  /\ log' = Append(log, <<"add", path>>)
                    /\ host' = r.host
                    /\ attempts' = r.tried
                    /\ completed_new' = completed_new_push(completed_new, path,
                                                           r.err)
                    /\ IF r.err = "Ok"
                       THEN Continue("add", cursor + 1) /\ UNCHANGED failure
                       ELSE Fail(Failure("add", path, r.err))
    /\ UNCHANGED <<pre, earlier, gm_text, gm_call, repos, opts, submod_names, selected_repos, new_repos,
                   updated_submods, removed_repos, tracker, pending,
                   rollback_err>>

\* main.rs:268-302: one iteration of the loop over updated_submods
UpdateExisting ==
    /\ pc = "update"
    /\ LET path == updated_submods[cursor]
       IN  IF dry_run_reports_only(opts)
           THEN /\ log' = Append(log, <<"would update", path>>)
                /\ Continue("update", cursor + 1)
                /\ UNCHANGED <<host, failure, attempts>>
           ELSE \E fault \in UpdateFaults :
                LET r == UpdateSubmodule(host, path, selected_repos[path],
                                         opts, fault)
                IN  /\ log' = Append(log, <<"update", path>>)
                    /\ host' = r.host
                    /\ attempts' = r.tried
                    /\ IF r.err = "Ok"
                       THEN Continue("update", cursor + 1) /\ UNCHANGED failure
                       ELSE Fail(Failure("update", path, r.err))
    /\ UNCHANGED <<pre, earlier, gm_text, gm_call, repos, opts, submod_names, selected_repos, new_repos,
                   updated_submods, removed_repos, tracker, completed_new,
                   pending, rollback_err>>

\* main.rs:309-324: one iteration of the loop over removed_repos
RemoveExtra ==
    /\ pc = "remove"
    /\ LET path == removed_repos[cursor]
       IN  IF dry_run_reports_only(opts)
           THEN /\ log' = Append(log, <<"would remove", path>>)
                /\ Continue("remove", cursor + 1)
                /\ UNCHANGED <<host, failure>>
           ELSE \E fault \in RemoveFaults :
                LET r == remove_submodule(host, path, fault)
                IN  /\ log' = Append(log, <<"remove", path>>)
                    /\ host' = r.host
                    /\ IF r.err = "Ok"
                       THEN Continue("remove", cursor + 1) /\ UNCHANGED failure
                       ELSE Fail(Failure("remove", path, r.err))
    /\ UNCHANGED <<pre, earlier, gm_text, gm_call, attempts, repos, opts, submod_names, selected_repos, new_repos,
                   updated_submods, removed_repos, tracker, completed_new,
                   pending, rollback_err>>

\* main.rs:170-174: one iteration of the loop over completed_new
RollbackRemoveNew ==
    /\ pc = "rollback_new"
    /\ cursor <= Len(completed_new)
    /\ host' = remove_submodule_rollback(host, completed_new[cursor])
    /\ log' = Append(log, <<"rollback remove", completed_new[cursor]>>)
    /\ cursor' = cursor + 1
    /\ UNCHANGED <<pc, pre, earlier, gm_text, gm_call, attempts, repos, opts, submod_names, selected_repos,
                   new_repos, updated_submods, removed_repos, tracker,
                   completed_new, pending, failure, rollback_err, result>>

\* main.rs:176-185: .gitmodules goes when no submodule is left
CleanGitmodules(h) ==
    IF h.gm_file /\ Submodules(h) = {}
    THEN [h EXCEPT !.gm_file = FALSE, !.gm_newline = FALSE,
                   !.gitmodules = NoLinks]
    ELSE h

\* the two calls of main.rs:178-186 that end main with `?`
RollbackFaults == {"none", "submodules", "remove_file"}

\* the call at which `fault` is injected is made in host state h
RollbackStepFails(h, fault) ==
    /\ h.gm_file
    /\ \/ fault = "submodules"
       \/ fault = "remove_file" /\ Submodules(h) = {}

\* what the log keeps of main.rs:176-186 and of the call of
\* tracker.rollback at main.rs:188
GitmodulesStep == <<"rollback gitmodules", <<>>>>
RestoreStep == <<"rollback restore", <<>>>>

\* main.rs:176-190: after the loop over completed_new.  An Err of
\* root_repo.submodules() or of fs::remove_file is returned by main as it
\* is, before tracker.rollback and before the bail! that wraps the
\* executor's error.
RollbackGitmodules ==
    /\ pc = "rollback_new"
    /\ cursor > Len(completed_new)
    /\ \E fault \in RollbackFaults :
        IF RollbackStepFails(host, fault)
        THEN /\ Finish("Err:rollback_step")
             /\ log' = Append(log, GitmodulesStep)
             /\ UNCHANGED <<host, pending>>
        ELSE /\ host' = CleanGitmodules(host)
             /\ log' = log \o <<GitmodulesStep, RestoreStep>>
             /\ pending' = DOMAIN tracker
             /\ pc' = "rollback_restore"
             /\ UNCHANGED result
    /\ UNCHANGED <<pre, earlier, gm_text, gm_call, attempts, repos, opts, submod_names, selected_repos, new_repos,
                   updated_submods, removed_repos, tracker, completed_new,
                   cursor, failure, rollback_err>>

\* state.rs:55-70: one iteration of the loop of tracker.rollback, in the
\* order the HashMap yields; the first Err ends the loop
RollbackRestore ==
    /\ pc = "rollback_restore"
    /\ \E name \in pending, fault \in RestoreFaults :
        LET r == RestoreState(host, name, tracker[name], fault)
        IN  /\ host' = r.host
            /\ log' = Append(log, <<"restore", name>>)
            /\ IF r.err = "Ok"
               THEN pending' = pending \ {name} /\ UNCHANGED rollback_err
               ELSE pending' = {} /\ rollback_err' = TRUE
    /\ UNCHANGED <<pc, pre, earlier, gm_text, gm_call, attempts, repos, opts, submod_names, selected_repos,
                   new_repos, updated_submods, removed_repos, tracker,
                   completed_new, cursor, failure, result>>

\* main.rs:188-192: tracker.rollback returned; bail
RollbackDone ==
    /\ pc = "rollback_restore"
    /\ pending = {}
    /\ Finish("Err:rolled_back")
    /\ UNCHANGED <<host, pre, earlier, gm_text, gm_call, attempts, repos, opts, submod_names, selected_repos,
                   new_repos, updated_submods, removed_repos, tracker,
                   completed_new, cursor, pending, failure, rollback_err, log>>

\* what `git commit` does to the host between two runs: HEAD takes the
\* gitlinks and the .gitmodules blob of the index
Commit(h) ==
    [h EXCEPT !.head = h.index, !.head_gm = h.index_gm, !.staged_other = FALSE]

\* the program is started again after a run that ended Ok, with the same
\* repos file and options and with nothing else done to the host, or
\* after the user committed what the run had staged
RunAgain ==
    /\ pc = "done"
    /\ result = "Ok"
    /\ earlier = <<>>
    /\ \E committed \in BOOLEAN :
        /\ earlier' = <<[host |-> host, committed |-> committed]>>
        /\ host' = IF committed THEN Commit(host) ELSE host
        /\ pre' = host'
    /\ pc' = "start"
    /\ result' = "running"
    /\ submod_names' = {}
    /\ selected_repos' = <<>>
    /\ new_repos' = <<>>
    /\ updated_submods' = <<>>
    /\ removed_repos' = <<>>
    /\ tracker' = <<>>
    /\ completed_new' = <<>>
    /\ cursor' = 1
    /\ pending' = {}
    /\ failure' = NoFailure
    /\ rollback_err' = FALSE
    /\ log' = <<>>
    /\ attempts' = <<>>
    /\ UNCHANGED <<repos, opts, gm_text, gm_call>>

Next ==
    \/ RunAgain
    \/ ValidateRepositories
    \/ ValidateMainRepoClean
    \/ ValidateSubmoduleStates
    \/ Select
    \/ Classify
    \/ Snapshot
    \/ AddNew
    \/ UpdateExisting
    \/ RemoveExtra
    \/ RollbackRemoveNew
    \/ RollbackGitmodules
    \/ RollbackRestore
    \/ RollbackDone

Spec == Init /\ [][Next]_vars

-----------------------------------------------------------------------------
(* classify_submodules on its own: any desired set, any registered set,    *)
(* several prefixes, among them the empty one and a nested one.            *)

ClassifyPaths == {SrcA, SrcB, LibC, <<"src">>, <<"srcx", "a">>}
ClassifyPrefixes == {<<>>, <<"src">>, <<"lib">>, <<"src", "a">>}

InitClassify ==
    \E D \in SUBSET ClassifyPaths, R \in SUBSET ClassifyPaths,
       P \in ClassifyPrefixes :
        /\ pc = "classify"
        /\ host = HostWith({}, TRUE, FALSE)
        /\ pre = host
        /\ earlier = <<>>
        /\ attempts = <<>>
        /\ gm_text = NoFile
        /\ gm_call = NoCall
        /\ repos = <<>>
        /\ opts = [Opts([no_checkout |-> FALSE, skip_existing |-> FALSE,
                         sync_selection |-> TRUE, dry_run |-> TRUE],
                        Filter(NoneOpt, NoneOpt)) EXCEPT !.prefix = P]
        /\ submod_names = R
        /\ selected_repos = [path \in D |-> Repo("git", Repo1Url, VMain)]
        /\ new_repos = <<>>
        /\ updated_submods = <<>>
        /\ removed_repos = <<>>
        /\ tracker = <<>>
        /\ completed_new = <<>>
        /\ cursor = 1
        /\ pending = {}
        /\ failure = NoFailure
        /\ rollback_err = FALSE
        /\ result = "running"
        /\ log = <<>>

SpecClassify == InitClassify /\ [][Classify]_vars

-----------------------------------------------------------------------------
(* remove_submodule_rollback on its own: the rollback loop of main over    *)
(* one path of which any subset of section, config entry, gitlink,         *)
(* control-data directory and working directory is left.                   *)

\* the working directories a leftover can have: none, a plain directory,
\* or, when the control data is there, a checked-out repository
LeftoverWorkdirs(modules) ==
    {"absent", "dir"} \cup (IF modules THEN {"repo"} ELSE {})

\* a host with what is left of a submodule at path, and with the committed
\* submodule src/b next to it when `other`
LeftoverHost(path, section, config, gitlink, modules, wd, other) ==
    LET base == HostWith(IF other THEN {SrcB} ELSE {}, TRUE, TRUE)
    IN  [base EXCEPT
            !.gm_file = base.gm_file \/ section,
            !.gm_newline = base.gm_file \/ section,
            !.gitmodules[path] = IF section THEN Repo1Url ELSE None,
            !.config[path] = IF config THEN Repo1Url ELSE None,
            !.index[path] = IF gitlink THEN "c1" ELSE None,
            !.sub[path] = IF modules THEN SubRepo("c1", Tree("c1"), Repo1Url)
                          ELSE NoSub,
            !.workdir[path] = wd]

InitLenient ==
    \E section, config, gitlink, modules, other \in BOOLEAN :
    \E wd \in LeftoverWorkdirs(modules) :
        /\ pc = "rollback_new"
        /\ host = LeftoverHost(SrcA, section, config, gitlink, modules, wd,
                               other)
        /\ pre = host
        /\ earlier = <<>>
        /\ attempts = <<>>
        /\ gm_text = NoFile
        /\ gm_call = NoCall
        /\ repos = [suffix \in {<<"a">>} |-> Repo("git", Repo1Url, VMain)]
        /\ opts = Opts([no_checkout |-> FALSE, skip_existing |-> FALSE,
                        sync_selection |-> FALSE, dry_run |-> FALSE],
                       Filter(NoneOpt, NoneOpt))
        /\ submod_names = IF other THEN {SrcB} ELSE {}
        /\ selected_repos = [path \in {SrcA} |-> Repo("git", Repo1Url, VMain)]
        /\ new_repos = <<SrcA>>
        /\ updated_submods = <<>>
        /\ removed_repos = <<>>
        /\ tracker = <<>>
        /\ completed_new = <<SrcA>>
        /\ cursor = 1
        /\ pending = {}
        /\ failure = Failure("add", SrcA, "submodule")
        /\ rollback_err = FALSE
        /\ result = "running"
        /\ log = <<<<"add", SrcA>>>>

SpecLenient == InitLenient /\ [][RollbackRemoveNew]_vars

-----------------------------------------------------------------------------
(* checkout_to_version inside an Update: one registered submodule src/a    *)
(* whose nested repository has or has not a local branch main, every       *)
(* version, with and without --no-checkout, and the rollback that follows   *)
(* a failed Update.                                                         *)

CheckoutVersions == {VMain, VHash1, VNope}

\* the host with src/a committed at c1, its nested repository with
\* refs/heads/main at `local` (or without it) and HEAD attached or not
CheckoutHost(local, attached, other) ==
    [HostWith(IF other THEN {SrcA, LibC} ELSE {SrcA}, TRUE, TRUE) EXCEPT
        !.sub[SrcA].local_main = local,
        !.sub[SrcA].attached = attached]

InitCheckout ==
    \E local \in {None, "c1"}, attached, other, no_checkout \in BOOLEAN,
       version \in CheckoutVersions :
        /\ attached => local # None
        /\ pc = "update"
        /\ host = CheckoutHost(local, attached, other)
        /\ pre = host
        /\ earlier = <<>>
        /\ attempts = <<>>
        /\ gm_text = NoFile
        /\ gm_call = NoCall
        /\ repos = [suffix \in {<<"a">>} |-> Repo("git", Repo1Url, version)]
        /\ opts = Opts([no_checkout |-> no_checkout, skip_existing |-> FALSE,
                        sync_selection |-> FALSE, dry_run |-> FALSE],
                       Filter(NoneOpt, NoneOpt))
        /\ submod_names = Submodules(host)
        /\ selected_repos = [path \in {SrcA} |-> Repo("git", Repo1Url, version)]
        /\ new_repos = <<>>
        /\ updated_submods = <<SrcA>>
        /\ removed_repos = <<>>
        /\ tracker = TrackerNew(host)
        /\ completed_new = <<>>
        /\ cursor = 1
        /\ pending = {}
        /\ failure = NoFailure
        /\ rollback_err = FALSE
        /\ result = "running"
        /\ log = <<>>

NextCheckout ==
    \/ UpdateExisting
    \/ RollbackGitmodules
    \/ RollbackRestore
    \/ RollbackDone

SpecCheckout == InitCheckout /\ [][NextCheckout]_vars

-----------------------------------------------------------------------------
(* The Remove loop of a sync-selection run: src/a, or src/a and src/b, are  *)
(* registered and not selected; the configuration has or has not a key for  *)
(* src/a.                                                                   *)

\* the host with the submodules of R committed, src/a with or without its
\* keys in .git/config
RemoveHost(R, keyed) ==
    [HostWith(R, TRUE, TRUE) EXCEPT
        !.config[SrcA] = IF keyed THEN Repo1Url ELSE None]

InitRemove ==
    \E extra \in SUBSET {SrcB, LibC}, keyed, both \in BOOLEAN :
        /\ both => SrcB \in extra
        /\ pc = "remove"
        /\ host = RemoveHost({SrcA} \cup extra, keyed)
        /\ validate_main_repo_clean(host) = "Ok"
        /\ validate_submodule_states(host) = "Ok"
        /\ ~TrackerFails(host)
        /\ pre = host
        /\ earlier = <<>>
        /\ attempts = <<>>
        /\ gm_text = NoFile
        /\ gm_call = NoCall
        /\ repos = <<>>
        /\ opts = Opts([no_checkout |-> FALSE, skip_existing |-> FALSE,
                        sync_selection |-> TRUE, dry_run |-> FALSE],
                       Filter(NoneOpt, NoneOpt))
        /\ submod_names = Submodules(host)
        /\ selected_repos = <<>>
        /\ new_repos = <<>>
        /\ updated_submods = <<>>
        /\ removed_repos = IF both THEN <<SrcA, SrcB>> ELSE <<SrcA>>
        /\ tracker = TrackerNew(host)
        /\ completed_new = <<>>
        /\ cursor = 1
        /\ pending = {}
        /\ failure = NoFailure
        /\ rollback_err = FALSE
        /\ result = "running"
        /\ log = <<>>

NextRemove ==
    \/ RemoveExtra
    \/ RollbackGitmodules
    \/ RollbackRestore
    \/ RollbackDone

SpecRemove == InitRemove /\ [][NextRemove]_vars

-----------------------------------------------------------------------------
(* git_ops.rs: the edits of the text of .gitmodules. A line is              *)
(* [ws, bracket, name, text]: whether it starts with white space, whether   *)
(* the trimmed line starts with '[', the name when the trimmed line is      *)
(* [submodule "<name>"] (as a sequence of characters, <<>> otherwise), and  *)
(* the rest of the line.                                                    *)

SubmoduleHeader(name) == [ws |-> FALSE, bracket |-> TRUE, name |-> name, text |-> "submodule"]
SectionHeader(text) == [ws |-> FALSE, bracket |-> TRUE, name |-> <<>>, text |-> text]
KeyLine(text) == [ws |-> TRUE, bracket |-> FALSE, name |-> <<>>, text |-> text]
TextLine(text) == [ws |-> FALSE, bracket |-> FALSE, name |-> <<>>, text |-> text]

\* str::trim of a line is empty
IsBlank(line) == ~line.bracket /\ line.text = ""

\* format!("[submodule \"{name}\"]") as a sequence of characters
HeaderText(name) ==
    <<"[", "s", "u", "b", "m", "o", "d", "u", "l", "e", " ", "\"">> \o name \o <<"\"", "]">>

\* str::contains
Contains(hay, needle) ==
    \E i \in 0..(Len(hay) - Len(needle)) :
        SubSeq(hay, i + 1, i + Len(needle)) = needle

\* str::trim of the joined lines: the blank lines at both ends go, and the
\* white space the first line starts with
RECURSIVE DropBlankHead(_)
DropBlankHead(lines) ==
    IF lines # <<>> /\ IsBlank(Head(lines)) THEN DropBlankHead(Tail(lines))
    ELSE lines
RECURSIVE DropBlankTail(_)
DropBlankTail(lines) ==
    IF lines # <<>> /\ IsBlank(lines[Len(lines)])
    THEN DropBlankTail(SubSeq(lines, 1, Len(lines) - 1))
    ELSE lines
TrimContent(lines) ==
    LET t == DropBlankTail(DropBlankHead(lines))
    IN  IF t = <<>> THEN t ELSE <<[Head(t) EXCEPT !.ws = FALSE]>> \o Tail(t)

\* the loop of update_gitmodules_file over content.lines(): new_lines
RECURSIVE KeptLines(_, _, _, _)
KeptLines(lines, name, path, in_target_section) ==
    IF lines = <<>> THEN <<>>
    ELSE LET line == Head(lines)
             header == line.name # <<>> /\ (line.name = name \/ line.name = path)
             inside == in_target_section /\ ~line.bracket
         IN  IF header THEN KeptLines(Tail(lines), name, path, TRUE)
             ELSE IF inside THEN KeptLines(Tail(lines), name, path, TRUE)
             ELSE <<line>> \o KeptLines(Tail(lines), name, path, FALSE)

\* found_section
FoundSection(lines, name, path) ==
    \E i \in 1..Len(lines) :
        lines[i].name # <<>> /\ (lines[i].name = name \/ lines[i].name = path)

\* the calls on the index after the file is written, where an error can be
\* injected
GitmodulesFaults == {"none", "index"}

\* update_gitmodules_file on the text of .gitmodules: [err, text]
update_gitmodules_file_text(text, path, name, must_exist, fault) ==
    LET trimmed_content == TrimContent(KeptLines(text.lines, name, path, FALSE))
        written == IF trimmed_content = <<>> THEN NoFile
                   ELSE TextFile(trimmed_content)
    IN  IF ~text.exists
        THEN [err |-> IF must_exist THEN "no file" ELSE "Ok", text |-> text]
        ELSE IF must_exist /\ ~FoundSection(text.lines, name, path)
        THEN [err |-> "no section", text |-> text]
        ELSE [err |-> IF fault = "index" THEN "index" ELSE "Ok", text |-> written]

\* the loop of manually_clean_gitmodules over content.lines()
RECURSIVE ManuallyKeptLines(_, _, _)
ManuallyKeptLines(lines, path, in_submodule_section) ==
    IF lines = <<>> THEN <<>>
    ELSE LET line == Head(lines)
             header == line.name # <<>> /\ Contains(HeaderText(line.name), path)
             inside == in_submodule_section /\ ~line.bracket
         IN  IF header THEN ManuallyKeptLines(Tail(lines), path, TRUE)
             ELSE IF inside THEN ManuallyKeptLines(Tail(lines), path, TRUE)
             ELSE <<line>> \o ManuallyKeptLines(Tail(lines), path, FALSE)

\* manually_clean_gitmodules on the text of .gitmodules
manually_clean_gitmodules(text, path) ==
    LET new_content == TrimContent(ManuallyKeptLines(text.lines, path, FALSE))
    IN  IF ~text.exists THEN text
        ELSE IF new_content = <<>> THEN NoFile
        ELSE TextFile(new_content)

\* the names and paths of this model, character by character
NameFoo == <<"f", "o", "o">>
NameSrcA == <<"s", "r", "c", "/", "a">>
NameSrcAB == <<"s", "r", "c", "/", "a", "b">>

\* the pieces a .gitmodules file is put together from: the blocks of three
\* submodules, a section of another kind, a comment and an empty line
Pieces ==
    {<<SubmoduleHeader(NameFoo), KeyLine("url = u1")>>,
     <<SubmoduleHeader(NameSrcA), KeyLine("url = u2")>>,
     <<SubmoduleHeader(NameSrcAB), KeyLine("url = u3")>>,
     <<SectionHeader("[core]"), KeyLine("x = 1")>>,
     <<TextLine("# comment")>>,
     <<TextLine("")>>}

\* the files: the pieces of a subset in any order
RECURSIVE Arrangements(_)
Arrangements(S) ==
    {<<>>} \cup UNION {{p \o rest : rest \in Arrangements(S \ {p})} : p \in S}

GitmodulesFiles == {TextFile(lines) : lines \in Arrangements(Pieces)} \cup {NoFile}

\* the submodules an edit is called for: src/a under its own name or under
\* the name foo, and src/ab
GitmodulesEntries ==
    {[name |-> NameSrcA, path |-> NameSrcA],
     [name |-> NameFoo, path |-> NameSrcA],
     [name |-> NameSrcAB, path |-> NameSrcAB]}

\* the block of the name is in the text
HasBlock(text, name) ==
    \E i \in 1..Len(text.lines) : text.lines[i].name = name

\* git_ops.rs:68-74 and 121-125: the callers get the name from
\* find_submodule(path), which looks for a block of that name first and
\* then for the block with that path: the name differs from the path only
\* when the name has a block and the path, taken as a name, has none
InitGitmodules ==
    \E text \in GitmodulesFiles, entry \in GitmodulesEntries, must_exist \in BOOLEAN :
        /\ entry.name # entry.path =>
               HasBlock(text, entry.name) /\ ~HasBlock(text, entry.path)
        /\ pc = "gitmodules"
        /\ gm_text = text
        /\ gm_call = [path |-> entry.path, name |-> entry.name,
                      must_exist |-> must_exist, text |-> text]
        /\ host = HostWith({}, TRUE, FALSE)
        /\ pre = host
        /\ earlier = <<>>
        /\ attempts = <<>>
        /\ repos = <<>>
        /\ opts = Opts([no_checkout |-> FALSE, skip_existing |-> FALSE,
                        sync_selection |-> FALSE, dry_run |-> FALSE],
                       Filter(NoneOpt, NoneOpt))
        /\ submod_names = {}
        /\ selected_repos = <<>>
        /\ new_repos = <<>>
        /\ updated_submods = <<>>
        /\ removed_repos = <<>>
        /\ tracker = <<>>
        /\ completed_new = <<>>
        /\ cursor = 1
        /\ pending = {}
        /\ failure = NoFailure
        /\ rollback_err = FALSE
        /\ result = "running"
        /\ log = <<>>

GitmodulesFrame ==
    UNCHANGED <<host, pre, earlier, attempts, gm_call, repos, opts, submod_names,
                selected_repos, new_repos, updated_submods, removed_repos,
                tracker, completed_new, cursor, pending, failure,
                rollback_err, log>>

\* git_ops.rs:98 (strict, the error goes to the caller) and 148-154
\* (lenient, an error leads to manually_clean_gitmodules)
UpdateGitmodulesFile ==
    /\ pc = "gitmodules"
    /\ \E fault \in GitmodulesFaults :
        LET r == update_gitmodules_file_text(gm_text, gm_call.path, gm_call.name,
                                             gm_call.must_exist, fault)
        IN  /\ gm_text' = r.text
            /\ IF r.err = "Ok" THEN Finish("Ok")
               ELSE IF gm_call.must_exist THEN Finish(r.err)
               ELSE pc' = "manual" /\ UNCHANGED result
    /\ GitmodulesFrame

\* git_ops.rs:155-157
ManuallyCleanGitmodules ==
    /\ pc = "manual"
    /\ gm_text' = manually_clean_gitmodules(gm_text, gm_call.path)
    /\ Finish("Ok")
    /\ GitmodulesFrame

NextGitmodules == UpdateGitmodulesFile \/ ManuallyCleanGitmodules

SpecGitmodules == InitGitmodules /\ [][NextGitmodules]_vars

-----------------------------------------------------------------------------
(* The Add of src/b into a working tree that already has a plain directory  *)
(* src/b, which no submodule is registered for, and the rollback after it.  *)

\* the host with the submodules of R committed and a directory at src/b
PlainDirHost(R) == [HostWith(R, TRUE, TRUE) EXCEPT !.workdir[SrcB] = "dir"]

InitPlainDir ==
    \E R \in SUBSET {SrcA, LibC}, repo \in ValidVariants, no_checkout \in BOOLEAN :
        /\ pc = "add"
        /\ host = PlainDirHost(R)
        /\ validate_main_repo_clean(host) = "Ok"
        /\ validate_submodule_states(host) = "Ok"
        /\ pre = host
        /\ earlier = <<>>
        /\ attempts = <<>>
        /\ gm_text = NoFile
        /\ gm_call = NoCall
        /\ repos = [suffix \in {<<"b">>} |-> repo]
        /\ opts = Opts([no_checkout |-> no_checkout, skip_existing |-> FALSE,
                        sync_selection |-> FALSE, dry_run |-> FALSE],
                       Filter(NoneOpt, NoneOpt))
        /\ submod_names = Submodules(host)
        /\ selected_repos = [path \in {SrcB} |-> repo]
        /\ new_repos = <<SrcB>>
        /\ updated_submods = <<>>
        /\ removed_repos = <<>>
        /\ tracker = TrackerNew(host)
        /\ completed_new = <<>>
        /\ cursor = 1
        /\ pending = {}
        /\ failure = NoFailure
        /\ rollback_err = FALSE
        /\ result = "running"
        /\ log = <<>>

NextPlainDir ==
    \/ AddNew
    \/ RollbackRemoveNew
    \/ RollbackGitmodules
    \/ RollbackRestore
    \/ RollbackDone

SpecPlainDir == InitPlainDir /\ [][NextPlainDir]_vars

-----------------------------------------------------------------------------
(* Properties.                                                             *)

RolledBack == pc = "done" /\ result = "Err:rolled_back"

\* the run failed in an Add whose fetch could not reach the URL
FailedOnUnreachableAdd ==
    /\ RolledBack
    /\ failure.op = "add"
    /\ failure.step = "fetch"
    /\ ~Reachable(selected_repos[failure.path].url)

\* C1: a run on a host without submodules that fails in an Add with an
\* unreachable URL leaves no submodule registered, no working directory at
\* any path of the add list, and no .gitmodules
C1_RollbackCompleteness ==
    (FailedOnUnreachableAdd /\ Submodules(pre) = {}) =>
        /\ Submodules(host) = {}
        /\ \A i \in 1..Len(new_repos) : host.workdir[new_repos[i]] = "absent"
        /\ ~host.gm_file

\* a valid spec was added, then the spec after it failed
C1_Witness ==
    /\ FailedOnUnreachableAdd
    /\ Submodules(pre) = {}
    /\ Len(new_repos) = 2
    /\ completed_new = new_repos
    /\ failure.path = new_repos[2]
    /\ Reachable(selected_repos[new_repos[1]].url)

\* C2: after a run that failed in an Add or an Update, every submodule
\* registered before the run has its HEAD at the commit of the snapshot
C2_SnapshotCommitRestored ==
    (RolledBack /\ failure.op \in {"add", "update"}) =>
        \A p \in Submodules(pre) :
            /\ p \in DOMAIN tracker
            /\ WorkdirId(host, p) = tracker[p].commit

\* an Update moved one submodule from c1 to the remote main, a later
\* Update failed, and the first is back at c1
C2_Witness ==
    /\ RolledBack
    /\ failure.op = "update"
    /\ \E p \in DOMAIN tracker :
        /\ p # failure.path
        /\ <<"update", p>> \in Range(log)
        /\ selected_repos[p].version = VMain
        /\ tracker[p].commit = "c1"
        /\ RemoteMain # "c1"
        /\ WorkdirId(host, p) = "c1"

\* the run has not got past the validation of main.rs:61-70
BeforeSelection ==
    /\ pc \in {"start", "validate_main", "validate_submodules", "done"}
    /\ selected_repos = <<>>
    /\ new_repos = <<>> /\ updated_submods = <<>> /\ removed_repos = <<>>
    /\ tracker = <<>>
    /\ log = <<>>

\* C3: with dry-run the host is the same before and after the run, and a
\* run that got to the executor ends with success
C3_DryRunPurity ==
    opts.dry_run =>
        /\ host = pre
        /\ (pc = "done" /\ log # <<>>) => result = "Ok"

\* C4: after a failed run the registered submodules and their recorded URLs
\* are those of before the run
C4_PreRunRegistrations ==
    RolledBack =>
        /\ Submodules(host) = Submodules(pre)
        /\ \A p \in Submodules(pre) : SubmoduleUrl(host, p) = SubmoduleUrl(pre, p)

\* C5: the three classes are new = D \ R, updated = D \cap R, removed =
\* the paths of R \ D under P; they are pairwise disjoint, without
\* repetition, and their union is D \cup (R under P)
C5_Partition ==
    pc = "snapshot" =>
        LET D == DOMAIN selected_repos
            R == submod_names
            P == opts.prefix
            N == Range(new_repos)
            U == Range(updated_submods)
            X == Range(removed_repos)
        IN  /\ N = D \ R
            /\ U = D \cap R
            /\ X = {r \in R \ D : StartsWith(r, P)}
            /\ N \cap U = {} /\ N \cap X = {} /\ U \cap X = {}
            /\ N \cup U \cup X = D \cup {r \in R : StartsWith(r, P)}
            /\ Len(new_repos) = Cardinality(N)
            /\ Len(updated_submods) = Cardinality(U)
            /\ Len(removed_repos) = Cardinality(X)

\* all three classes are inhabited and a registered path lies outside P
C5_Witness ==
    /\ pc = "snapshot"
    /\ new_repos # <<>> /\ updated_submods # <<>> /\ removed_repos # <<>>
    /\ \E r \in submod_names \ DOMAIN selected_repos :
        ~StartsWith(r, opts.prefix)

\* C6: a submodule registered outside the prefix is never in the removed
\* class and no Remove, real or dry, is ever aimed at it
C6_OutsidePrefixUntouched ==
    \A p \in Submodules(pre) :
        ~StartsWith(p, opts.prefix) =>
            /\ p \notin Range(removed_repos)
            /\ <<"remove", p>> \notin Range(log)
            /\ <<"would remove", p>> \notin Range(log)

\* a sync-selection run removed a submodule under the prefix and left the
\* unselected one outside it in place
C6_Witness ==
    /\ pc = "done" /\ result = "Ok"
    /\ opts.sync_selection /\ ~opts.dry_run
    /\ LibC \in Submodules(pre) /\ LibC \notin DOMAIN selected_repos
    /\ \E q \in AllPaths : <<"remove", q>> \in Range(log)
    /\ LibC \in Submodules(host) /\ host.workdir[LibC] = "repo"

\* C7: after a failed sync-selection run every submodule registered before
\* the run is still registered and still has its working directory
C7_SyncSelectionKeepsSubmodules ==
    (RolledBack /\ opts.sync_selection) =>
        \A p \in Submodules(pre) :
            p \in Submodules(host) /\ host.workdir[p] # "absent"

Drifted(h, p) ==
    /\ h.workdir[p] = "repo" /\ h.sub[p].present
    /\ h.sub[p].head # None
    /\ h.sub[p].head # h.index[p]

\* C9: when a registered submodule's HEAD differs from the commit the host
\* records for it, the run fails before the classification and changes
\* nothing
C9_DriftDetected ==
    (\E p \in Submodules(pre) : Drifted(pre, p)) =>
        /\ host = pre
        /\ BeforeSelection
        /\ pc = "done" => result = "Err:submodule_state"

\* the nested repository of p is uninitialized, cannot be opened, or has
\* uncommitted modifications or new files
Unusable(h, p) ==
    \/ h.workdir[p] # "repo"
    \/ ~h.sub[p].present
    \/ h.sub[p].head = None
    \/ h.sub[p].corrupt
    \/ h.sub[p].dirty
    \/ h.sub[p].wt \ Tree(h.sub[p].head) # {}

\* C10: when some registered submodule is unusable, the run fails before
\* any Add, Update or Remove and changes nothing
C10_UnusableSubmoduleRejected ==
    (\E p \in Submodules(pre) : Unusable(pre, p)) =>
        /\ host = pre
        /\ BeforeSelection
        /\ pc = "done" => result \in {"Err:submodule_state", "Err:config",
                                      "Err:staged", "Err:usage"}

\* a dirty submodule outside the prefix, named by no entry of the repos
\* file, made the validation of the submodule states fail
C10_Witness ==
    /\ pc = "done"
    /\ result = "Err:submodule_state"
    /\ LibC \in Submodules(pre)
    /\ pre.sub[LibC].dirty
    /\ host = pre

\* the selection has been made and accepted
Selected ==
    pc \in {"classify", "snapshot", "add", "update", "remove", "rollback_new",
            "rollback_restore"}
    \/ (pc = "done" /\ result \in {"Ok", "Err:snapshot", "Err:failed",
                                     "Err:rolled_back", "Err:rollback_step"})

\* (only if present, else all declared keys) minus ignore
ExpectedSelection ==
    (IF opts.only.some THEN opts.only.v ELSE DOMAIN repos)
        \ (IF opts.ignore.some THEN opts.ignore.v ELSE {})

\* C11: the desired set is the expected selection joined to the prefix,
\* each path with the entry declared for its suffix, and every Add and
\* Update, real or dry, is aimed at a path of that set
C11_SelectionIsOnlyMinusIgnore ==
    Selected =>
        /\ DOMAIN selected_repos =
                {Join(opts.prefix, suffix) : suffix \in ExpectedSelection}
        /\ \A suffix \in ExpectedSelection :
                selected_repos[Join(opts.prefix, suffix)] = repos[suffix]
        /\ \A i \in 1..Len(log) :
                log[i][1] \in {"add", "update", "would add", "would update"}
                    => log[i][2] \in DOMAIN selected_repos

\* two entries are declared, one is ignored: the run added the other one
\* and finished without touching the ignored one
C11_Witness ==
    /\ pc = "done" /\ result = "Ok"
    /\ DOMAIN repos = Suffixes
    /\ opts.ignore.some /\ opts.ignore.v = {<<"a">>}
    /\ log = <<(<<"add", SrcB>>)>>
    /\ SrcA \notin Submodules(host)
    /\ SrcB \in Submodules(host)

\* the validation of main.rs:61-70 and the command line parser let the run
\* through
PassedValidation ==
    /\ pc = "done"
    /\ result \notin {"Err:usage", "Err:config", "Err:staged",
                       "Err:submodule_state"}

\* the entries of the filters that are no key of the repos file
UnknownIgnored == opts.ignore.v \ DOMAIN repos
UnknownOnly == opts.only.v \ DOMAIN repos

\* sets of suffixes to try check_subset and check_disjoint on
SuffixSets == SUBSET (Suffixes \cup {UnknownSuffix})

\* C12: check_subset succeeds iff the filter is a subset of the declared
\* keys and otherwise lists every entry that is not one; a run whose filter
\* names an undeclared key never gets past the selection, and the error of
\* the selection lists all the undeclared entries of the filter it checked
C12_UnknownEntriesAllReported ==
    /\ \A all \in SuffixSets, subset \in SuffixSets :
        /\ (check_subset(all, subset) = {}) <=> (subset \subseteq all)
        /\ check_subset(all, subset) = subset \ all
    /\ (UnknownIgnored \cup UnknownOnly # {}) =>
        /\ ~Selected
        /\ PassedValidation =>
            /\ result = "Err:selection"
            /\ failure.step = "not found"
            /\ failure.reported =
                  (IF UnknownIgnored # {} THEN UnknownIgnored ELSE UnknownOnly)
    /\ (pc = "done" /\ result = "Err:selection" /\ failure.step = "not found")
            => UnknownIgnored \cup UnknownOnly # {}

\* --only names two keys the repos file does not declare, and the error
\* lists both
C12_Witness ==
    /\ pc = "done" /\ result = "Err:selection"
    /\ opts.only.some
    /\ Cardinality(UnknownOnly) = 2
    /\ failure.reported = UnknownOnly

\* C13: check_disjoint succeeds iff the two sets have no common element
\* and otherwise lists the common ones; a run given both --only and
\* --ignore, with or without a common entry, ends in error with the host
\* as it was, before the selection and before any operation
C13_OnlyAndIgnoreRejected ==
    /\ \A lset \in SuffixSets, rset \in SuffixSets :
        /\ (check_disjoint(lset, rset) = {}) <=> (lset \cap rset = {})
        /\ check_disjoint(lset, rset) = lset \cap rset
    /\ (opts.only.some /\ opts.ignore.some) =>
        /\ host = pre
        /\ BeforeSelection
        /\ pc = "done" => result = "Err:usage"

\* --only a --ignore b, with both keys declared and valid: the run was
\* refused by the command line parser
C13_Witness ==
    /\ pc = "done" /\ result = "Err:usage"
    /\ opts.only.some /\ opts.ignore.some
    /\ opts.only.v \cap opts.ignore.v = {}
    /\ opts.only.v \cup opts.ignore.v \subseteq DOMAIN repos
    /\ validate_repositories(repos, opts.prefix) = "Ok"
    /\ host = pre

\* the run ended in error before the classification
RejectedBeforeClassify ==
    /\ pc = "done"
    /\ result \in {"Err:usage", "Err:config", "Err:staged",
                    "Err:submodule_state", "Err:selection", "Err:type"}

\* C14: when some entry of the repos file has a type other than git, the
\* run changes nothing, never gets to the classification, and ends in error
C14_UnsupportedKindRejected ==
    (\E suffix \in DOMAIN repos : repos[suffix].type # "git") =>
        /\ host = pre
        /\ pc \in {"start", "validate_main", "validate_submodules", "select",
                    "done"}
        /\ pc = "done" => RejectedBeforeClassify

\* every entry by itself is acceptable: relative key, no "..", allowed
\* scheme
EveryEntryValid ==
    \A suffix \in DOMAIN repos : RepoEntryValid(suffix, repos[suffix])

\* C15 as claimed: validate_repositories accepts iff every entry is valid
\* by itself, and a run with a violating entry changes nothing and ends
\* in error before the selection
C15_ValidationIffEntriesValid ==
    /\ (pc # "start" /\ result # "Err:usage") =>
            ((result # "Err:config") <=> EveryEntryValid)
    /\ ~EveryEntryValid =>
        /\ host = pre
        /\ BeforeSelection
        /\ pc = "done" => result \in {"Err:config", "Err:usage"}

\* C15 as amended: validate_repositories accepts iff every entry is valid
\* by itself and no two keys join the prefix to the same path; a run
\* whose repos file it refuses changes nothing and ends in error before
\* the selection, whether the offending entry is selected or not
C15_ValidationIffEntriesValidAndDistinct ==
    /\ (pc # "start" /\ result # "Err:usage") =>
            ((result # "Err:config")
                <=> (EveryEntryValid /\ ~DuplicatePath(repos, opts.prefix)))
    /\ (~EveryEntryValid \/ DuplicatePath(repos, opts.prefix)) =>
        /\ host = pre
        /\ BeforeSelection
        /\ pc = "done" => result \in {"Err:config", "Err:usage"}

\* a key with a parent-directory component that --only leaves out made
\* the run fail with the configuration error
C15_Witness ==
    /\ pc = "done" /\ result = "Err:config"
    /\ ParentSuffix \in DOMAIN repos
    /\ opts.only.some /\ ParentSuffix \notin opts.only.v
    /\ \A suffix \in DOMAIN repos \ {ParentSuffix} :
            RepoEntryValid(suffix, repos[suffix])
    /\ host = pre

\* the executor returned Err in a run that is not a dry run, so main went
\* into its rollback branch
RollbackTriggered == failure.op \in {"add", "update", "remove"} /\ ~opts.dry_run

\* C17: whenever the rollback is triggered, the error main returns is the
\* one that wraps the executor's error; an error of a rollback step never
\* takes its place
C17_OriginalErrorSurfaced ==
    (RollbackTriggered /\ pc = "done") => result = "Err:rolled_back"

\* the operations process_submodule_operations has to go through, in
\* order; `dry` gives the names of the reports of a dry run
ExpectedLog(dry) ==
    LET tag(op) == IF dry THEN "would " \o op ELSE op
        adds == [i \in 1..Len(new_repos) |-> <<tag("add"), new_repos[i]>>]
        upds == IF should_update(opts)
                THEN [i \in 1..Len(updated_submods) |->
                        <<tag("update"), updated_submods[i]>>]
                ELSE <<>>
        rems == IF opts.sync_selection
                THEN [i \in 1..Len(removed_repos) |->
                        <<tag("remove"), removed_repos[i]>>]
                ELSE <<>>
    IN  adds \o upds \o rems

\* the host records a submodule at p: a section of .gitmodules, a gitlink
\* in the index or an entry of .git/config
Registered(h, p) ==
    \/ h.gm_file /\ h.gitmodules[p] # None
    \/ h.index[p] # None
    \/ h.config[p] # None

\* C16: main returns Ok only when every check passed and every operation
\* of the run was made (or, in a dry run, reported) without an error, the
\* run without operations included; a run in which a check or an
\* operation failed returns an error
C16_ExitContract ==
    /\ (pc = "done" /\ result = "Ok") =>
        /\ failure = NoFailure
        /\ ~ArgGroupConflict(opts)
        /\ validate_repositories(repos, opts.prefix) = "Ok"
        /\ validate_main_repo_clean(pre) = "Ok"
        /\ validate_submodule_states(pre) = "Ok"
        /\ SelectSuffixes(DOMAIN repos, opts).err = "Ok"
        /\ TypesSupported(selected_repos)
        /\ log = ExpectedLog(opts.dry_run)
        /\ ~opts.dry_run =>
            /\ \A i \in 1..Len(new_repos) :
                    /\ new_repos[i] \in Submodules(host)
                    /\ host.index[new_repos[i]] # None
            /\ opts.sync_selection =>
                    \A i \in 1..Len(removed_repos) :
                        ~Registered(host, removed_repos[i])
    /\ (pc = "done" /\ failure # NoFailure) =>
            result \in {"Err:selection", "Err:failed", "Err:rolled_back",
                        "Err:rollback_step"}
    /\ (pc = "done" /\ result = "Err:rolled_back") =>
            failure.op \in {"add", "update", "remove"}
    /\ pc = "done" =>
            result \in {"Ok", "Err:usage", "Err:config", "Err:staged",
                        "Err:submodule_state", "Err:selection", "Err:type",
                        "Err:snapshot", "Err:failed", "Err:rolled_back",
                        "Err:rollback_step"}

\* a run with an Add and a Remove, both successful, ended Ok
C16_Witness ==
    /\ pc = "done" /\ result = "Ok"
    /\ ~opts.dry_run
    /\ Len(log) = 2
    /\ log = ExpectedLog(FALSE)
    /\ log[1][1] = "add" /\ log[2][1] = "remove"

\* what the host records for the submodule at p and where its nested
\* repository stands are the same in h and in g
SameSubmodule(h, g, p) ==
    /\ SubmoduleUrl(h, p) = SubmoduleUrl(g, p)
    /\ h.config[p] = g.config[p]
    /\ IndexId(h, p) = IndexId(g, p)
    /\ h.sub[p] = g.sub[p]
    /\ h.workdir[p] = g.workdir[p]

\* C18: with skip-existing no Update is invoked or reported for a path of
\* the updated class; those submodules are as they were before the run
\* (recorded URL, config entry, recorded commit, nested repository and
\* working directory), in every state of the run and at its end; and a
\* run that ends Ok has added every path of the new class
C18_SkipExistingLeavesUpdated ==
    opts.skip_existing =>
        /\ \A i \in 1..Len(log) : log[i][1] \notin {"update", "would update"}
        /\ \A i \in 1..Len(updated_submods) :
                SameSubmodule(host, pre, updated_submods[i])
        /\ (pc = "done" /\ result = "Ok" /\ ~opts.dry_run) =>
                \A i \in 1..Len(new_repos) :
                    /\ <<"add", new_repos[i]>> \in Range(log)
                    /\ new_repos[i] \in Submodules(host)
                    /\ host.workdir[new_repos[i]] = "repo"

\* with skip-existing, one declared path was registered and one was not:
\* the run added the second and left the first, whose entry names another
\* URL and version, as it was
C18_Witness ==
    /\ pc = "done" /\ result = "Ok"
    /\ opts.skip_existing /\ ~opts.dry_run
    /\ Len(updated_submods) = 1 /\ Len(new_repos) = 1
    /\ log = <<(<<"add", new_repos[1]>>)>>
    /\ selected_repos[updated_submods[1]].url # SubmoduleUrl(pre, updated_submods[1])
    /\ SameSubmodule(host, pre, updated_submods[1])

\* nothing of the submodule at p is left in the host but the gitlink of
\* the HEAD commit, which stays until the removal is committed
Gone(h, p) ==
    /\ ~Registered(h, p)
    /\ h.workdir[p] = "absent"
    /\ ~h.sub[p].present

\* C19: after a run with sync-selection that ended Ok and was no dry run,
\* the submodules registered under the prefix are exactly the selected
\* paths: each selected path is registered with its nested repository in
\* place, and each path that was registered under the prefix and is not
\* selected is gone, registration and working directory
C19_SyncSelectionConverges ==
    (pc = "done" /\ result = "Ok" /\ opts.sync_selection /\ ~opts.dry_run) =>
        /\ {p \in AllPaths : StartsWith(p, opts.prefix) /\ Registered(host, p)}
                = DOMAIN selected_repos
        /\ \A p \in DOMAIN selected_repos :
                /\ p \in Submodules(host)
                /\ host.workdir[p] = "repo"
                /\ host.sub[p].present
        /\ \A p \in Submodules(pre) :
                (StartsWith(p, opts.prefix) /\ p \notin DOMAIN selected_repos)
                    => Gone(host, p)

\* two submodules were registered under the prefix and one is selected:
\* the run removed the other one and kept the selected one
C19_Witness ==
    /\ pc = "done" /\ result = "Ok"
    /\ opts.sync_selection /\ ~opts.dry_run
    /\ {SrcA, SrcB} \subseteq Submodules(pre)
    /\ DOMAIN selected_repos = {SrcA}
    /\ <<"remove", SrcB>> \in Range(log)
    /\ Gone(host, SrcB)
    /\ Registered(host, SrcA)

\* C20: without sync-selection no Remove is invoked or reported as an
\* operation in any run, and the submodules of the removed class stay
\* registered and keep their config entry, index gitlink, .gitmodules
\* section, nested repository and working directory, in every state of
\* the run and at its end
C20_NoSyncNoRemove ==
    ~opts.sync_selection =>
        /\ \A i \in 1..Len(log) : log[i][1] \notin {"remove", "would remove"}
        /\ pc # "remove"
        /\ \A i \in 1..Len(removed_repos) :
                /\ SameSubmodule(host, pre, removed_repos[i])
                /\ removed_repos[i] \in Submodules(host)

\* without sync-selection a run added a declared path and ended Ok; the
\* registered path under the prefix that the repos file does not declare
\* is in the removed class and is as it was
C20_Witness ==
    /\ pc = "done" /\ result = "Ok"
    /\ ~opts.sync_selection /\ ~opts.dry_run
    /\ Len(removed_repos) = 1
    /\ \E i \in 1..Len(log) : log[i][1] = "add"
    /\ SameSubmodule(host, pre, removed_repos[1])
    /\ Registered(host, removed_repos[1])

-----------------------------------------------------------------------------
(* running the program a second time                                       *)

\* this run is the second of two non-dry runs with the same repos file
\* and options
SecondRun == earlier # <<>> /\ ~opts.dry_run

\* the host as the first run left it
AfterFirstRun == earlier[1].host

\* the second run passed every validation, put every selected path in the
\* updated class, and ended with every nested HEAD where the first run left it
SecondRunChangesNothing ==
    /\ result = "Ok"
    /\ new_repos = <<>>
    /\ Range(updated_submods) = DOMAIN selected_repos
    /\ Range(removed_repos) \cap DOMAIN selected_repos = {}
    /\ \A p \in AllPaths : WorkdirId(host, p) = WorkdirId(AfterFirstRun, p)

\* the run failed in an Update, at a step where an I/O error was injected
\* into a nested repository that can be opened
InjectedUpdateFault ==
    /\ failure.op = "update"
    /\ \/ failure.step \in {"open", "finalize"}
       \/ /\ failure.step = "checkout"
          /\ attempts # <<>>
          /\ attempts[Len(attempts)].status \in CheckoutFaults
    /\ CanOpen(pre, failure.path)
    /\ new_repos = <<>>
    /\ Range(updated_submods) = DOMAIN selected_repos

\* C21 as stated: when the program is run twice with the same desired state
\* and nothing is done to the host between the runs, the second run is
\* accepted, classifies every selected path as updated and leaves every
\* nested repository at the commit it had after the first run
C21_Idempotence ==
    (SecondRun /\ ~earlier[1].committed /\ pc = "done")
        => SecondRunChangesNothing

\* C21: when the first run staged nothing, or what it staged was committed
\* before the second run, the second run is accepted and classifies every
\* selected path as updated; unless an I/O error stops one of its Updates,
\* it ends Ok with every nested repository at the commit it had after the
\* first run
C21_IdempotenceAfterCommit ==
    (/\ SecondRun
     /\ pc = "done"
     /\ earlier[1].committed \/ ~HasStagedChanges(AfterFirstRun))
        => IF failure = NoFailure
           THEN SecondRunChangesNothing
           ELSE InjectedUpdateFault

\* a second run, started after a commit, that found a path the first run
\* had added and updated it
C21_Witness ==
    /\ SecondRun
    /\ earlier[1].committed
    /\ pc = "done"
    /\ result = "Ok"
    /\ \E p \in DOMAIN selected_repos :
        /\ <<"update", p>> \in Range(log)
        /\ HasStagedChanges(AfterFirstRun)
        /\ AfterFirstRun.index[p] # AfterFirstRun.head[p]
        /\ AfterFirstRun.head[p] = None
-----------------------------------------------------------------------------
(* the executor: order, fail-fast, completed additions                     *)

ExecutorOps == {"add", "update", "remove"}

IsInvocation(entry) == entry[1] \in ExecutorOps

\* the Add, Update and Remove operations invoked so far, in order
Invocations == SelectSeq(log, IsInvocation)

OpRank(op) == CASE op = "add" -> 1 [] op = "update" -> 2 [] op = "remove" -> 3

\* C22: in a non-dry run every Add is invoked before any Update and every
\* Update before any Remove, the operations of one class are invoked in
\* ascending path order, and no path is the target of two operations
C22_ExecutionOrder ==
    ~opts.dry_run =>
        \A i, j \in 1..Len(Invocations) :
            i < j =>
                /\ OpRank(Invocations[i][1]) <= OpRank(Invocations[j][1])
                /\ Invocations[i][1] = Invocations[j][1]
                       => PathLess(Invocations[i][2], Invocations[j][2])
                /\ Invocations[i][2] # Invocations[j][2]

\* a run that added two paths, the lesser one first
C22_Witness ==
    /\ ~opts.dry_run
    /\ pc = "done"
    /\ result = "Ok"
    /\ Invocations = <<<<"add", SrcA>>, <<"add", SrcB>>>>

RollbackSteps == {"rollback_new", "rollback_gitmodules", "rollback_restore"}

\* C23: once an Add, Update or Remove has failed, no further Add, Update or
\* Remove is invoked, and the host changes only in the steps of the rollback
C23_FailFast ==
    [][failure.op \in ExecutorOps =>
          /\ Invocations' = Invocations
          /\ host' # host => pc \in RollbackSteps]_vars

\* the first of two Adds failed, the rollback is over, and the second Add
\* was never invoked
C23_Witness ==
    /\ pc = "done"
    /\ failure.op = "add"
    /\ Len(new_repos) = 2
    /\ failure.path = new_repos[1]
    /\ Invocations = <<<<"add", new_repos[1]>>>>

IsAdd(entry) == entry[1] = "add"

\* the paths of the Adds invoked so far, in order
AddsStarted ==
    LET adds == SelectSeq(log, IsAdd)
    IN  [i \in 1..Len(adds) |-> adds[i][2]]

\* C24: the completed-additions list holds exactly the paths whose Add was
\* started, whether it returned Ok or failed; it is a prefix of the sorted
\* add list, has no duplicates, and Update and Remove never add to it
C24_CompletedAdditions ==
    /\ completed_new = AddsStarted
    /\ Len(completed_new) <= Len(new_repos)
    /\ completed_new = SubSeq(new_repos, 1, Len(completed_new))
    /\ \A i, j \in 1..Len(completed_new) :
           i # j => completed_new[i] # completed_new[j]

\* an Add returned Ok, the next Add failed, and both paths are in the list
C24_Witness ==
    /\ failure.op = "add"
    /\ Len(new_repos) = 2
    /\ failure.path = new_repos[2]
    /\ completed_new = new_repos
-----------------------------------------------------------------------------
(* the rollback                                                            *)

\* the loop over completed_new is over
RemovedNewPaths == pc = "rollback_new" /\ cursor > Len(completed_new)

\* C25: when the loop over the completed additions is over, the lenient
\* removal was attempted for each of its paths, and each path is left with
\* no config entry, no gitlink in the index, no section of .gitmodules, no
\* control data and no working directory, whatever was there before
C25_LenientRemovalComplete ==
    RemovedNewPaths =>
        /\ \A i \in 1..Len(completed_new) :
               <<"rollback remove", completed_new[i]>> \in Range(log)
        /\ \A i \in 1..Len(completed_new) : Gone(host, completed_new[i])

IsRollbackStep(entry) ==
    entry[1] \in {"rollback remove", "rollback gitmodules", "rollback restore"}

\* the steps of the rollback branch of main taken so far, in order
RollbackLog == SelectSeq(log, IsRollbackStep)

\* one lenient removal per completed addition, then the .gitmodules step,
\* then the call of the snapshot restore
FullRollback ==
    [i \in 1..Len(completed_new) |-> <<"rollback remove", completed_new[i]>>]
        \o <<GitmodulesStep, RestoreStep>>

\* C26: a rollback that is over has removed the new paths, then dealt with
\* .gitmodules, then invoked the snapshot restore, in this order, whatever
\* happened in the first two steps, and has ended the run with an error
C26_RollbackOrder ==
    (RollbackTriggered /\ pc = "done") =>
        /\ RollbackLog = FullRollback
        /\ result # "Ok"

\* the Remove of p returned Ok in this run
RemoveCompleted(p) ==
    /\ <<"remove", p>> \in Range(log)
    /\ failure.path # p

\* C27: after a rollback that went through the snapshot restore, every
\* snapshot entry whose Remove had completed in the failed run is
\* registered again, at its snapshot commit, with its working tree
C27_RemovedEntryRecreated ==
    RolledBack =>
        \A name \in DOMAIN tracker :
            RemoveCompleted(name) =>
                /\ name \in Submodules(host)
                /\ host.workdir[name] = "repo"
                /\ WorkdirId(host, name) = tracker[name].commit

\* the snapshot entry of name is restored: the nested HEAD is at the
\* snapshot commit
Restored(h, name) == WorkdirId(h, name) = tracker[name].commit

\* C28: the snapshot restore attempts every entry of the snapshot, also
\* after the restoration of an entry failed, and returns an error exactly
\* when some entry is not restored
C28_RestoreAttemptsEveryEntry ==
    RolledBack =>
        /\ \A name \in DOMAIN tracker : <<"restore", name>> \in Range(log)
        /\ rollback_err <=> \E name \in DOMAIN tracker : ~Restored(host, name)

\* C29: the error main returns after a rollback tells whether the snapshot
\* restore succeeded: a run whose restore returned an error does not end
\* with the result of a run whose rollback completed
C29_RollbackOutcomeSurfaced ==
    (RollbackTriggered /\ pc = "done" /\ rollback_err)
        => result # "Err:rolled_back"
-----------------------------------------------------------------------------
(* failures before the executor                                            *)

\* the run ended with an error of the command line, of the configuration
\* validation, of the precondition validation, of the selection or of the
\* snapshot capture
FailedBeforeExecutor ==
    /\ pc = "done"
    /\ result \in {"Err:usage", "Err:config", "Err:staged",
                   "Err:submodule_state", "Err:selection", "Err:type",
                   "Err:snapshot"}

\* C30: a run that fails in validation, selection or snapshot capture has
\* invoked no Add, Update or Remove and no rollback step and leaves the
\* host as it was before the run; and when the snapshot is about to be
\* captured nothing of the host has been changed
C30_EarlyFailuresChangeNothing ==
    /\ FailedBeforeExecutor =>
           /\ Invocations = <<>>
           /\ RollbackLog = <<>>
           /\ host = pre
    /\ pc = "snapshot" => host = pre
-----------------------------------------------------------------------------
(* the executor in a dry run                                               *)

IsReport(entry) == entry[1] \in {"would add", "would update", "would remove"}

\* the operations a dry run reported so far, in order
Reports == SelectSeq(log, IsReport)

ReportRank(op) ==
    CASE op = "would add" -> 1 [] op = "would update" -> 2
      [] op = "would remove" -> 3

\* the executor was entered and has returned
ExecutorReturned ==
    /\ pc = "done"
    /\ tracker # <<>> \/ result \in {"Ok", "Err:failed", "Err:rolled_back",
                                     "Err:rollback_step"}
    /\ result # "Err:snapshot"

\* C31: in a dry run no Add, Update or Remove is invoked, the executor
\* never fails and no rollback step is taken; when the executor has
\* returned the run has ended Ok with one report per operation of a real
\* run: adds, then updates unless skip-existing, then removes if
\* sync-selection, each class in ascending path order
C31_DryRunReportsOnly ==
    opts.dry_run =>
        /\ Invocations = <<>>
        /\ RollbackLog = <<>>
        /\ failure.op \notin ExecutorOps
        /\ \A i, j \in 1..Len(Reports) :
               i < j =>
                   /\ ReportRank(Reports[i][1]) <= ReportRank(Reports[j][1])
                   /\ Reports[i][1] = Reports[j][1]
                          => PathLess(Reports[i][2], Reports[j][2])
        /\ ExecutorReturned =>
               /\ result = "Ok"
               /\ Reports = ExpectedLog(TRUE)

\* a dry run that reported an add and then a remove and created nothing
C31_Witness ==
    /\ opts.dry_run
    /\ pc = "done"
    /\ result = "Ok"
    /\ \E i \in 1..Len(Reports) : Reports[i][1] = "would add"
    /\ \E i \in 1..Len(Reports) : Reports[i][1] = "would remove"
    /\ Len(Reports) = 2
    /\ host.workdir = pre.workdir
-----------------------------------------------------------------------------
(* version resolution                                                      *)

\* the last call of checkout_to_spec the operation made
LastAttempt == attempts[Len(attempts)]

\* C32: checkout_to_version first resolves the version itself; it makes a
\* second attempt, with origin/<version>, exactly when the first attempt
\* failed with the reference-not-found error; there is never a third
\* attempt, and an error of the last attempt is the failure of the
\* enclosing operation
C32_FallbackOnlyOnRefNotFound ==
    attempts # <<>> =>
        /\ Len(attempts) <= 2
        /\ ~attempts[1].spec.origin
        /\ Len(attempts) = 2 <=> attempts[1].status = "ref_not_found"
        /\ Len(attempts) = 2 =>
               attempts[2].spec = OriginSpec(attempts[1].spec.name)
        /\ LastAttempt.status # "ok" =>
               /\ failure.op \in {"add", "update"}
               /\ failure.step = "checkout"

\* the first attempt resolved main through the local branch and then
\* failed in set_head; origin/main exists, and no second attempt was made
C32_Witness ==
    /\ Len(attempts) = 1
    /\ attempts[1].spec = DirectSpec(VMain)
    /\ attempts[1].status = "set_head"
    /\ host.sub[SrcA].remote_main # None
    /\ failure.op = "update"
    /\ failure.step = "checkout"

\* the version the Update of src/a was asked for, and refs/heads/main of
\* its nested repository before the run
AskedVersion == selected_repos[SrcA].version
LocalMainBefore == pre.sub[SrcA].local_main

\* the rollback branch of main was entered
InRollback ==
    \/ pc \in RollbackSteps
    \/ pc = "done" /\ result \in {"Err:rolled_back", "Err:rollback_step"}

\* C33: an Update that got to checkout_to_version resolves a commit hash,
\* or main when the local branch exists, at the first attempt, and unless
\* a later step fails HEAD stays at that commit; it resolves main without
\* a local branch at the second attempt, as origin/main, and HEAD is then
\* at the commit of origin/main; a version that is neither fails at both attempts, the
\* Update fails at its checkout step and main enters the rollback
C33_FallbackResolution ==
    (SrcA \in DOMAIN selected_repos /\ attempts # <<>>) =>
        /\ (AskedVersion = VHash1 \/ (AskedVersion = VMain /\ LocalMainBefore # None))
               => /\ Len(attempts) = 1
                  /\ attempts[1].status \in {"ok"} \cup CheckoutFaults
                  /\ (attempts[1].status = "ok" /\ failure = NoFailure) =>
                         host.sub[SrcA].head =
                             IF AskedVersion = VHash1 THEN "c1" ELSE LocalMainBefore
        /\ (AskedVersion = VMain /\ LocalMainBefore = None)
               => /\ Len(attempts) = 2
                  /\ attempts[2].spec = OriginSpec(VMain)
                  /\ attempts[2].status \in {"ok"} \cup CheckoutFaults
                  /\ (attempts[2].status = "ok" /\ failure = NoFailure) =>
                         host.sub[SrcA].head = RemoteMain
        /\ AskedVersion = VNope
               => /\ Len(attempts) = 2
                  /\ attempts[1].status = "ref_not_found"
                  /\ attempts[2].status = "ref_not_found"
                  /\ failure = Failure("update", SrcA, "checkout")
                  /\ InRollback

\* main was resolved as origin/main at the second attempt and the run
\* ended Ok with HEAD at the commit of origin/main
C33_Witness ==
    /\ pc = "done"
    /\ result = "Ok"
    /\ AskedVersion = VMain
    /\ LocalMainBefore = None
    /\ Len(attempts) = 2
    /\ attempts[2].status = "ok"
    /\ host.sub[SrcA].head = RemoteMain

\* what revparse_ext gave the last call of checkout_to_spec in the Update
\* of src/a: the nested repository as it was after the fetch
Resolved ==
    RevparseExt(fetch(pre.sub[SrcA], AskedVersion).sub, LastAttempt.spec)

\* the Update of src/a went through checkout_to_version and ended well
UpdateChecked == attempts # <<>> /\ failure = NoFailure

\* the working tree and HEAD of src/a after a checkout_to_version that
\* returned Ok, and after one that resolved nothing
CheckoutAsRequested ==
    /\ UpdateChecked =>
           /\ LastAttempt.status = "ok"
           /\ host.sub[SrcA].wt =
                  IF opts.no_checkout THEN pre.sub[SrcA].wt
                  ELSE Tree(Resolved.id)
           /\ host.sub[SrcA].head = Resolved.id
    /\ (attempts # <<>> /\ LastAttempt.status = "ref_not_found"
            /\ pc = "rollback_new") =>
           /\ host.sub[SrcA].wt = pre.sub[SrcA].wt
           /\ host.sub[SrcA].head = pre.sub[SrcA].head
           /\ host.sub[SrcA].attached = pre.sub[SrcA].attached

\* C34 as stated: the tree is checked out only when the version resolved
\* and --no-checkout is off, HEAD moves to the resolved commit at every
\* successful resolution, and HEAD is attached exactly when the version
\* resolved to a reference
C34_HeadAttachedToResolvedRef ==
    /\ CheckoutAsRequested
    /\ UpdateChecked => (host.sub[SrcA].attached <=> Resolved.ref # None)

\* C34: the tree is checked out only when the version resolved and
\* --no-checkout is off, HEAD moves to the resolved commit at every
\* successful resolution, and HEAD is attached exactly when the version
\* resolved to a local branch; after a resolution to a remote-tracking
\* reference or to no reference HEAD is detached
C34_HeadAttachedToLocalBranch ==
    /\ CheckoutAsRequested
    /\ UpdateChecked =>
           (host.sub[SrcA].attached <=> Resolved.ref = "refs/heads/main")

\* with --no-checkout, main resolved to refs/remotes/origin/main: the tree
\* stays, HEAD is at the commit of origin/main and detached
C34_Witness ==
    /\ pc = "done"
    /\ result = "Ok"
    /\ opts.no_checkout
    /\ Resolved.ref = RemoteMainRef
    /\ host.sub[SrcA].wt = pre.sub[SrcA].wt
    /\ host.sub[SrcA].wt # Tree(host.sub[SrcA].head)
    /\ host.sub[SrcA].head = RemoteMain
    /\ ~host.sub[SrcA].attached

-----------------------------------------------------------------------------
(* the teardown of a Remove                                                *)

\* the steps of remove_submodule in the order of the code
TeardownSteps == <<"config", "index", "gitmodules", "modules", "workdir">>

\* step k of the teardown shows in h at path p / h still has at p what the
\* run started with
StepDone(h, p, k) ==
    CASE k = 1 -> h.config[p] = None
      [] k = 2 -> h.index[p] = None
      [] k = 3 -> h.gitmodules[p] = None
      [] k = 4 -> h.sub[p] = NoSub
      [] k = 5 -> h.workdir[p] = "absent"
StepUntouched(h, p, k) ==
    CASE k = 1 -> h.config[p] = pre.config[p]
      [] k = 2 -> h.index[p] = pre.index[p]
      [] k = 3 -> h.gitmodules[p] = pre.gitmodules[p]
      [] k = 4 -> h.sub[p] = pre.sub[p]
      [] k = 5 -> h.workdir[p] = pre.workdir[p]

\* the number of teardown steps that came before the failing one
StepsBefore(step) ==
    IF step = "find" THEN 0
    ELSE (CHOOSE k \in 1..5 : TeardownSteps[k] = step) - 1

\* the state right after the call of remove_submodule for path p
JustRemoved(p) == log # <<>> /\ log[Len(log)] = <<"remove", p>>

\* C35: right after a Remove of p that failed at some step, every earlier
\* step of the order config, index, .gitmodules, control data, working
\* directory shows at p and the failing step and the later ones have
\* changed nothing; the failure is the run's failure and main is in its
\* rollback branch; right after a Remove that returned Ok all five steps
\* show, also when the configuration had no key for p
C35_TeardownOrder ==
    \A p \in AllPaths :
        JustRemoved(p) =>
            IF failure = NoFailure
            THEN \A k \in 1..5 : StepDone(host, p, k)
            ELSE /\ failure.op = "remove"
                 /\ failure.path = p
                 /\ failure.step \in {"find", "index", "gitmodules", "modules", "workdir"}
                 /\ InRollback
                 /\ \A k \in 1..5 :
                        IF k <= StepsBefore(failure.step)
                        THEN StepDone(host, p, k)
                        ELSE StepUntouched(host, p, k)

\* a Remove of a path without a key in the configuration failed at its
\* control-data step: index entry and .gitmodules section are gone, control data and working directory
\* are still there
C35_Witness ==
    \E p \in AllPaths :
        /\ JustRemoved(p)
        /\ failure = Failure("remove", p, "modules")
        /\ pre.config[p] = None
        /\ host.config[p] = None
        /\ host.index[p] = None
        /\ host.gitmodules[p] = None
        /\ host.sub[p] = pre.sub[p]
        /\ host.sub[p] # NoSub
        /\ host.workdir[p] = "repo"

-----------------------------------------------------------------------------
(* the edit of .gitmodules                                                 *)

\* the lines without the blocks of the name: each from its header up to the
\* next line that starts a bracketed section, or to the end
RECURSIVE WithoutBlock(_, _, _)
WithoutBlock(lines, name, inside) ==
    IF lines = <<>> THEN <<>>
    ELSE IF Head(lines).name = name THEN WithoutBlock(Tail(lines), name, TRUE)
    ELSE IF inside /\ ~Head(lines).bracket
    THEN WithoutBlock(Tail(lines), name, TRUE)
    ELSE <<Head(lines)>> \o WithoutBlock(Tail(lines), name, FALSE)

\* no line starts a bracketed section
NoBlocks(lines) == \A i \in 1..Len(lines) : ~lines[i].bracket

\* the file the removal of the entry is to leave
WithoutEntry(text, name) ==
    LET rest == WithoutBlock(text.lines, name, FALSE)
    IN  IF NoBlocks(rest) THEN NoFile ELSE TextFile(rest)

\* a file up to the white space at its ends; an empty file counts as none
UpToWhiteSpace(text) ==
    IF TrimContent(text.lines) = <<>> THEN NoFile
    ELSE TextFile(TrimContent(text.lines))

\* the file or the block of the name is missing before the edit
EntryMissing == ~gm_call.text.exists \/ ~HasBlock(gm_call.text, gm_call.name)

\* C36: the edit of .gitmodules for an entry leaves, up to white space at
\* the ends of the file, the lines of the file without the block of the
\* entry's name, and no file when no block remains; in strict mode a
\* missing file or block is an error that leaves the file alone, in
\* lenient mode it is no error and leaves the lines alone
C36_ExactBlockRemoved ==
    (gm_call # NoCall /\ pc = "done") =>
        IF gm_call.must_exist
        THEN IF EntryMissing
             THEN result # "Ok" /\ gm_text = gm_call.text
             ELSE result = "Ok" =>
                      UpToWhiteSpace(gm_text)
                          = UpToWhiteSpace(WithoutEntry(gm_call.text, gm_call.name))
        ELSE /\ result = "Ok"
             /\ UpToWhiteSpace(gm_text) =
                    UpToWhiteSpace(IF EntryMissing THEN gm_call.text
                                   ELSE WithoutEntry(gm_call.text, gm_call.name))

-----------------------------------------------------------------------------
(* the snapshot                                                            *)

\* SubmoduleStateTracker::new has returned Ok in this run
SnapshotTaken ==
    \/ pc \in {"add", "update", "remove"} \cup RollbackSteps
    \/ pc = "done" /\ result \in {"Ok", "Err:failed", "Err:rolled_back",
                                  "Err:rollback_step"}

\* the submodule at p has no checked-out commit or no URL in .gitmodules
LacksState(h, p) ==
    \/ h.workdir[p] # "repo"
    \/ ~h.sub[p].present
    \/ h.sub[p].head = None
    \/ h.gitmodules[p] = None

\* C37: the snapshot has one entry for each submodule registered when the
\* run started, and no other: its name, its path, the commit its nested
\* repository was at and its URL; the capture fails when one of them has
\* no such commit or no URL, and after a failed capture the run has ended
\* with no Add, Update or Remove invoked or reported and the host as it
\* was, but for the prefix directory main creates before the capture
C37_SnapshotCapture ==
    /\ SnapshotTaken =>
           /\ DOMAIN tracker = Submodules(pre)
           /\ \A p \in Submodules(pre) :
                  /\ ~LacksState(pre, p)
                  /\ tracker[p] = [name |-> p, path |-> p,
                                   commit |-> pre.sub[p].head,
                                   url |-> pre.gitmodules[p]]
    /\ result = "Err:snapshot" =>
           /\ pc = "done"
           /\ \E p \in Submodules(pre) : LacksState(pre, p)
           /\ log = <<>>
           /\ [host EXCEPT !.prefix_dir = pre.prefix_dir] = pre

\* the capture failed for a registered submodule without a URL, in a run
\* that was no dry run and had operations to make
C37_Witness ==
    /\ pc = "done"
    /\ result = "Err:snapshot"
    /\ ~opts.dry_run
    /\ Len(new_repos) + Len(updated_submods) > 0
    /\ \E p \in Submodules(pre) : pre.gitmodules[p] = None
    /\ log = <<>>

-----------------------------------------------------------------------------
(* the result of a successful run                                          *)

\* p is a registered nested repository with the URL u, finalized: its
\* section and its gitlink, at the commit of the nested HEAD, are staged
Finalized(h, p, u) ==
    /\ p \in Submodules(h)
    /\ h.gm_file
    /\ h.gitmodules[p] = u
    /\ h.index_gm = GmBlob(h)
    /\ h.workdir[p] = "repo"
    /\ h.sub[p].present
    /\ h.sub[p].head # None
    /\ h.index[p] = h.sub[p].head

\* C38: after a run that ended Ok, was no dry run and had no
\* --skip-existing, every selected path is a registered and finalized
\* nested repository with the URL of its entry: a path that was no
\* submodule at the start went through one Add, a path that was one went
\* through one Update, and the rollback removed nothing
C38_SelectedPathsFinalized ==
    (pc = "done" /\ result = "Ok" /\ ~opts.dry_run /\ ~opts.skip_existing) =>
        /\ \A p \in DOMAIN selected_repos :
               /\ Finalized(host, p, selected_repos[p].url)
               /\ Cardinality({i \in 1..Len(log) : log[i] =
                      <<IF p \in Submodules(pre) THEN "update" ELSE "add", p>>}) = 1
        /\ \A i \in 1..Len(log) : log[i][1] # "rollback remove"

\* src/b was added and src/a, registered with another URL, was updated to
\* the URL of its entry
C38_Witness ==
    /\ pc = "done"
    /\ result = "Ok"
    /\ ~opts.dry_run
    /\ ~opts.skip_existing
    /\ earlier = <<>>
    /\ DOMAIN selected_repos = {SrcA, SrcB}
    /\ log = <<<<"add", SrcB>>, <<"update", SrcA>>>>
    /\ pre.gitmodules[SrcA] # selected_repos[SrcA].url
    /\ Finalized(host, SrcA, selected_repos[SrcA].url)
    /\ Finalized(host, SrcB, selected_repos[SrcB].url)

-----------------------------------------------------------------------------
(* what the rollback deletes                                               *)

\* before the run p was a plain directory that no submodule was
\* registered for
PlainDirBefore(p) ==
    /\ pre.workdir[p] = "dir"
    /\ ~Registered(pre, p)
    /\ pre.head[p] = None

\* the rollback branch of main has run to its end
RollbackEnded ==
    pc = "done" /\ result \in {"Err:rolled_back", "Err:rollback_step"}

\* C39: a directory that stood at a desired path before the run, with no
\* submodule registered for it, still stands there after the rollback of
\* the failed Add of that path
C39_PreexistingDirectoryKept ==
    \A p \in AllPaths :
        (PlainDirBefore(p) /\ RollbackEnded /\ failure = Failure("add", p, failure.step))
            => host.workdir[p] # "absent"

\* C40: after a run that went through its rollback the host passes the
\* checks of the validator again: nothing is staged against HEAD, and
\* every registered submodule is initialized, can be opened, is clean and
\* is at the commit recorded for it
C40_RolledBackHostIsAccepted ==
    RollbackEnded =>
        /\ validate_main_repo_clean(host) = "Ok"
        /\ validate_submodule_states(host) = "Ok"
====
